---- MODULE Spec2Model ----
(***************************************************************************)
(* Ask/tell state machines of nevergrad/optimization/optimizerlib.py.      *)
(*                                                                         *)
(* One optimizer instance is built in Init (its class, dimension, budget   *)
(* and num_workers), then the caller issues ask / tell / recommend calls.  *)
(* Each call is one action: the base-class wrapper (base.Optimizer, which  *)
(* is not part of optimizerlib.py) followed by the class's _internal_*     *)
(* method.  A call that raises keeps the assignments made before the       *)
(* raise and reports status "error".                                       *)
(*                                                                         *)
(* Real numbers are carried on integer grids; every random draw is a       *)
(* choice from a small set.                                                *)
(***************************************************************************)
EXTENDS Integers, Sequences, FiniteSets, TLC

VARIABLES
    optimizer,    \* name of the class of the instance under test
    dimension,    \* base.Optimizer.dimension
    budget,       \* base.Optimizer.budget (Nothing, or Some(number))
    num_workers,  \* base.Optimizer.num_workers
    num_ask,      \* base.Optimizer._num_ask
    num_tell,     \* base.Optimizer._num_tell
    archive,      \* base.Optimizer.archive, in insertion order
    oneplusone,   \* fields of _OnePlusOne
    pso,          \* fields of PSO
    portfolio,    \* fields of Portfolio and its subclasses
    eda,          \* fields of EDA, PCEDA, MPCEDA, MEDA and TBPSA
    cma,          \* fields of CMA
    spsa,         \* fields of SPSA
    result,       \* the last call: its name, arguments, outcome
    outstanding,  \* history: the points asked and not yet told, oldest first
    hist          \* history: per-class bookkeeping used by the properties

vars == <<optimizer, dimension, budget, num_workers, num_ask, num_tell, archive,
          oneplusone, pso, portfolio, eda, cma, spsa, result, outstanding, hist>>

----------------------------------------------------------------------------
(* Bounds of the model. *)

\* asks and tells a one-plus-one instance receives in a run
MaxCallsOnePlusOne == 6

\* floor of the swarm size of PSO (the source's floor, 40, scaled down)
MinSwarm == 1
\* asks a PSO instance receives beyond one per particle
ExtraAsksPSO == 2
\* asks issued to a portfolio
MaxAsksPortfolio == 4
\* asks issued to an EDA or a TBPSA
MaxAsksEDA == 4

\* tells of a long sequential run of the EDA family, and the first tells of it
\* whose value is free
MaxTellsCohorts == 60
FreeTells == 4
\* asks issued to a CMA
MaxAsksCMA == 4

\* asks a CMA receives in a run whose tells follow the order of the asks
MaxAsksBatches == 5
\* asks issued to an SPSA
MaxAsksSPSA == 4

\* objective values the caller reports
Values == {3, 5, 6}

\* Python's None, for a name, for a point or list, for an optional number
None == "None"
NoPoint == <<>>
Unused == <<>>
Nothing == <<>>
Some(n) == <<n>>

----------------------------------------------------------------------------
(* Generic helpers. *)

Max(a, b) == IF a >= b THEN a ELSE b
Min(a, b) == IF a <= b THEN a ELSE b

RECURSIVE Pow(_, _)
Pow(b, e) == IF e = 0 THEN 1 ELSE b * Pow(b, e - 1)

\* the all-zero point, np.zeros(dimension)
Zeros(d) == [i \in 1..d |-> 0]

\* all points of dimension d with coordinates in S
PointsOver(S, d) == [1..d -> S]

\* list without its i-th element (del l[i])
RemoveAt(s, i) == [j \in 1..(Len(s) - 1) |-> IF j < i THEN s[j] ELSE s[j + 1]]

\* index of the first occurrence of e in s, 0 when absent (list.index)
IndexOf(s, e) ==
    IF \E i \in 1..Len(s) : s[i] = e
    THEN CHOOSE i \in 1..Len(s) : s[i] = e /\ \A j \in 1..(i - 1) : s[j] # e
    ELSE 0

Count(s, e) == Cardinality({i \in 1..Len(s) : s[i] = e})

----------------------------------------------------------------------------
(* base.Optimizer: the archive and the current bests.                      *)
(* An archive entry is [x, count, sum, lo, hi]: the point, the number of   *)
(* evaluations, their sum, the lowest and the highest observed value.      *)

ArchiveIndex(arch, x) ==
    IF \E i \in 1..Len(arch) : arch[i].x = x
    THEN CHOOSE i \in 1..Len(arch) : arch[i].x = x
    ELSE 0

\* archive after tell(x, value): a new entry, or one more evaluation of x
ArchiveTell(arch, x, value) ==
    LET i == ArchiveIndex(arch, x) IN
    IF i = 0
    THEN Append(arch, [x |-> x, count |-> 1, sum |-> value, lo |-> value, hi |-> value])
    ELSE [arch EXCEPT ![i] = [x |-> x,
                              count |-> @.count + 1,
                              sum |-> @.sum + value,
                              lo |-> Min(@.lo, value),
                              hi |-> Max(@.hi, value)]]

\* the estimate of one entry under a policy
Estimation(e, name) ==
    IF name = "optimistic" THEN e.lo * e.count
    ELSE IF name = "pessimistic" THEN e.hi * e.count
    ELSE e.sum

\* is entry a's estimate lower than entry b's (estimates are scaled by count)
LowerEstimate(a, b, name) ==
    Estimation(a, name) * b.count < Estimation(b, name) * a.count

\* index of the current best under a policy: the first entry no other beats
BestIndex(arch, name) ==
    CHOOSE i \in 1..Len(arch) :
        /\ \A j \in 1..Len(arch) : ~LowerEstimate(arch[j], arch[i], name)
        /\ \A j \in 1..(i - 1) : LowerEstimate(arch[i], arch[j], name)

\* current_bests[name].x: the origin while nothing has been told
BestX(arch, name, d) ==
    IF Len(arch) = 0 THEN Zeros(d) ELSE arch[BestIndex(arch, name)].x

\* value <= current_bests[name].mean, the mean being +inf while nothing was told
AtMostBestMean(value, arch, name) ==
    \/ Len(arch) = 0
    \/ LET e == arch[BestIndex(arch, name)] IN value * e.count <= e.sum

\* An outstanding ask is [x, slot]: the point returned, and the particle or
\* sub-optimizer that produced it (Nothing for a class without slots).
Asked(x, slot) == [x |-> x, slot |-> slot]

\* index of the oldest outstanding ask of x, 0 when there is none
Oldest(out, x) ==
    IF \E i \in 1..Len(out) : out[i].x = x
    THEN CHOOSE i \in 1..Len(out) : out[i].x = x /\ \A j \in 1..(i - 1) : out[j].x # x
    ELSE 0

\* the outstanding asks after a tell of x: the oldest ask of x is answered
Answer(out, x) == IF Oldest(out, x) = 0 THEN out ELSE RemoveAt(out, Oldest(out, x))

\* the record of a call: its name, the point returned or told, the value told
\* (as an optional number), how it ended ("ok", or "error" when it raised), a
\* note on the branch taken, and the slot (particle, sub-optimizer) it involved
CallResult(op, x, value, status, note, slot) ==
    [op |-> op, x |-> x, value |-> value, status |-> status, note |-> note, slot |-> slot]

----------------------------------------------------------------------------
(* _OnePlusOne and ParametrizedOnePlusOne.                                 *)
(* _sigma is the exact rational <<numerator, denominator>>.                *)

\* draws of np.random.normal(0, 1) and np.random.standard_cauchy(), per coordinate
NormalDraws == {0, 1}
CauchyDraws == {0, 3}

\* the registered configurations the model instantiates
\* (noise_handling is [strategy, factor as <<num, den>>], the strategy "None" for None)
OnePlusOneConfigs ==
    { [noise_handling |-> [strategy |-> None, factor |-> <<0, 1>>], mutation |-> "gaussian", crossover |-> FALSE],
      [noise_handling |-> [strategy |-> "random", factor |-> <<1, 20>>],
       mutation |-> "gaussian", crossover |-> FALSE],
      [noise_handling |-> [strategy |-> None, factor |-> <<0, 1>>], mutation |-> "cauchy", crossover |-> FALSE],
      [noise_handling |-> [strategy |-> None, factor |-> <<0, 1>>], mutation |-> "discrete", crossover |-> FALSE],
      [noise_handling |-> [strategy |-> "random", factor |-> <<1, 1>>],
       mutation |-> "gaussian", crossover |-> FALSE],
      [noise_handling |-> [strategy |-> "optimistic", factor |-> <<1, 20>>],
       mutation |-> "portfolio", crossover |-> TRUE] }

\* arguments ParametrizedOnePlusOne.__init__ is also called with: a mutation
\* and a strategy that _internal_ask has a branch for, an unknown mutation,
\* an unknown strategy, a zero and a negative factor
RejectedConfigs ==
    { [noise_handling |-> [strategy |-> None, factor |-> <<0, 1>>], mutation |-> "crossover", crossover |-> FALSE],
      [noise_handling |-> [strategy |-> None, factor |-> <<0, 1>>], mutation |-> "bitflip", crossover |-> FALSE],
      [noise_handling |-> [strategy |-> "cubic", factor |-> <<1, 20>>],
       mutation |-> "gaussian", crossover |-> FALSE],
      [noise_handling |-> [strategy |-> "pessimistic", factor |-> <<1, 1>>],
       mutation |-> "discrete", crossover |-> FALSE],
      [noise_handling |-> [strategy |-> "random", factor |-> <<0, 1>>],
       mutation |-> "gaussian", crossover |-> FALSE],
      [noise_handling |-> [strategy |-> "optimistic", factor |-> <<0 - 1, 1>>],
       mutation |-> "cauchy", crossover |-> TRUE] }

\* the names _OnePlusOne._internal_ask dispatches through self._mutations
DiscreteNames == {"discrete", "fastga", "doublefastga", "portfolio"}

\* a construction that checks nothing
ParametrizedOnePlusOneInit_unchecked(params) == "ok"

\* ParametrizedOnePlusOne.__init__: "ok", or "error" when an assertion fails
ParametrizedOnePlusOneInit(params) ==
    LET nh == params.noise_handling IN
    IF nh.strategy # None /\ ~(nh.factor[1] > 0) THEN "error"
    ELSE IF nh.strategy # None /\ nh.strategy \notin {"random", "optimistic"} THEN "error"
    ELSE IF params.mutation \notin {"gaussian", "cauchy"} \cup DiscreteNames THEN "error"
    ELSE "ok"

\* _OnePlusOne.__init__
OnePlusOneInit(params) == [sigma |-> <<1, 1>>, parameters |-> params]

\* x + sigma * draw, coordinate by coordinate, on the integer grid
Step(x, sigma, draw) == [i \in DOMAIN x |-> x[i] + ((sigma[1] * draw[i]) \div sigma[2])]

\* mutations.<name>_mutation(x): some coordinates are redrawn
DiscreteMutations(x) ==
    { [i \in DOMAIN x |-> IF i \in K THEN r[i] ELSE x[i]] :
        K \in SUBSET (DOMAIN x), r \in PointsOver(NormalDraws, Len(x)) }

\* mutations.crossover(x, mutations.get_roulette(archive, 2)): each coordinate
\* comes from x or from an archived point
Crossovers(x, arch) ==
    { p \in PointsOver({x[i] : i \in DOMAIN x} \cup
                       {arch[k].x[i] : k \in 1..Len(arch), i \in DOMAIN x}, Len(x)) :
        \A i \in DOMAIN x : p[i] = x[i] \/ \E k \in 1..Len(arch) : arch[k].x[i] = p[i] }

\* num_ask <= factor * len(archive) ** 3
BelowNoiseLimit(n_ask, factor, arch) ==
    n_ask * factor[2] <= factor[1] * Pow(Len(arch), 3)

\* the strategy selected without the fixed starting point
OnePlusOneStrategy_no_start(o, n_ask, arch) ==
    LET nh == o.parameters.noise_handling IN
    IF nh.strategy \in {"cubic", "random", "optimistic"}
            /\ BelowNoiseLimit(n_ask, nh.factor, arch) THEN nh.strategy
    ELSE IF o.parameters.crossover /\ n_ask % 2 = 1 /\ Len(arch) > 2 THEN "crossover"
    ELSE IF o.parameters.mutation = "crossover" THEN "crossover mutation"
    ELSE o.parameters.mutation

\* the strategy selected when the crossover test comes before the noise test
OnePlusOneStrategy_crossover_first(o, n_ask, arch) ==
    LET nh == o.parameters.noise_handling IN
    IF n_ask = 0 THEN "zeros"
    ELSE IF o.parameters.crossover /\ n_ask % 2 = 1 /\ Len(arch) > 2 THEN "crossover"
    ELSE IF nh.strategy \in {"cubic", "random", "optimistic"}
            /\ BelowNoiseLimit(n_ask, nh.factor, arch) THEN nh.strategy
    ELSE IF o.parameters.mutation = "crossover" THEN "crossover mutation"
    ELSE o.parameters.mutation

\* the strategy _internal_ask selects for this call
OnePlusOneStrategy(o, n_ask, arch) ==
    LET nh == o.parameters.noise_handling IN
    IF n_ask = 0 THEN "zeros"
    ELSE IF nh.strategy \in {"cubic", "random", "optimistic"}
            /\ BelowNoiseLimit(n_ask, nh.factor, arch) THEN nh.strategy
    ELSE IF o.parameters.crossover /\ n_ask % 2 = 1 /\ Len(arch) > 2 THEN "crossover"
    ELSE IF o.parameters.mutation = "crossover" THEN "crossover mutation"
    ELSE o.parameters.mutation

\* _OnePlusOne._internal_ask: the points this call may return
OnePlusOne_internal_ask(o, n_ask, arch, d) ==
    LET strategy == OnePlusOneStrategy(o, n_ask, arch)
        best == BestX(arch, "pessimistic", d)
    IN  CASE strategy = "zeros" -> {Zeros(d)}
          [] strategy \in {"cubic", "random"} -> {arch[k].x : k \in 1..Len(arch)}
          [] strategy = "optimistic" -> {BestX(arch, "optimistic", d)}
          [] strategy = "crossover" -> Crossovers(best, arch)
          [] strategy = "gaussian" ->
                {Step(best, o.sigma, n) : n \in PointsOver(NormalDraws, d)}
          [] strategy = "cauchy" ->
                {Step(best, o.sigma, n) : n \in PointsOver(CauchyDraws, d)}
          [] strategy = "crossover mutation" ->
                IF n_ask % 2 = 0 \/ Len(arch) < 3 THEN DiscreteMutations(best)
                ELSE Crossovers(best, arch)
          [] strategy \in DiscreteNames -> DiscreteMutations(best)
          [] OTHER -> \* self._mutations[mutation] raises KeyError
                     {}

\* the step size times 2. (success) or times .84
Rescale(sigma, success) ==
    IF success THEN <<sigma[1] * 2, sigma[2]>> ELSE <<sigma[1] * 21, sigma[2] * 25>>

\* variant: a value equal to the best mean counts as a failure
OnePlusOne_internal_tell_strict(o, value, arch) ==
    [o EXCEPT !.sigma =
        Rescale(@, \/ Len(arch) = 0
                   \/ LET e == arch[BestIndex(arch, "pessimistic")]
                      IN  value * e.count < e.sum)]

\* _OnePlusOne._internal_tell; arch is the archive the base class has just updated
OnePlusOne_internal_tell(o, value, arch) ==
    [o EXCEPT !.sigma = Rescale(@, AtMostBestMean(value, arch, "pessimistic"))]

\* the points a caller may tell: those asked and not yet told, those already
\* told, and one that no ask returned
Stranger(d) == [i \in 1..d |-> 0 - 7]
TellPoints == {outstanding[i].x : i \in 1..Len(outstanding)}
              \cup {archive[i].x : i \in 1..Len(archive)}
              \cup {Stranger(dimension)}

\* a caller answers the asks in any order; a run is followed up to and
\* including the first tell of a point that has no outstanding ask; nothing is
\* called on an optimizer whose construction failed
Misuse(x) == Oldest(outstanding, x) = 0
Running == ~hist.misuse /\ ~(result.op = "init" /\ result.status = "error")

\* the values a caller may report for x: any of them for a point it was
\* asked to evaluate, the lowest one for a point outside the contract
TellValues(x, values) ==
    IF Misuse(x) THEN {CHOOSE v \in values : \A w \in values : v <= w} ELSE values

\* history of a one-plus-one run: the comparisons won and lost by the tells,
\* whether the contract was broken, and how far the run has followed the
\* script "ask, tell 5, ask, tell 3" (with the second asked point)
NoOnePlusOneHist ==
    [success |-> 0, failure |-> 0, misuse |-> FALSE, script |-> "start", second |-> NoPoint]

ScriptAfterAsk(h, x) ==
    IF h.script = "start" THEN [h EXCEPT !.script = "asked1"]
    ELSE IF h.script = "told5" THEN [h EXCEPT !.script = "asked2", !.second = x]
    ELSE [h EXCEPT !.script = "off", !.second = NoPoint]

ScriptAfterTell(h, out, x, value) ==
    IF h.script = "asked1" /\ value = 5 /\ out = <<Asked(x, Nothing)>> THEN [h EXCEPT !.script = "told5"]
    ELSE IF h.script = "asked2" /\ value = 3 /\ out = <<Asked(x, Nothing)>> THEN [h EXCEPT !.script = "told3"]
    ELSE [h EXCEPT !.script = "off", !.second = NoPoint]

\* OnePlusOne, the default configuration
DefaultOnePlusOne ==
    [noise_handling |-> [strategy |-> None, factor |-> <<0, 1>>],
     mutation |-> "gaussian", crossover |-> FALSE]

\* the default configuration runs in dimension 2, the others in dimension 1
InitOnePlusOne ==
    /\ optimizer = "OnePlusOne"
    /\ budget = Nothing
    /\ num_workers = 1
    /\ num_ask = 0
    /\ num_tell = 0
    /\ archive = <<>>
    /\ \E params \in OnePlusOneConfigs \cup RejectedConfigs :
        /\ oneplusone = OnePlusOneInit(params)
        /\ dimension = IF params = DefaultOnePlusOne THEN 2 ELSE 1
        /\ result = CallResult("init", NoPoint, Nothing, ParametrizedOnePlusOneInit(params),
                               "", Nothing)
    /\ pso = Unused
    /\ portfolio = Unused
    /\ eda = Unused
    /\ cma = Unused
    /\ spsa = Unused
    /\ outstanding = <<>>
    /\ hist = NoOnePlusOneHist

\* base.Optimizer.ask on a _OnePlusOne
OnePlusOneAsk ==
    /\ optimizer = "OnePlusOne"
    /\ Running
    /\ num_ask + num_tell < MaxCallsOnePlusOne
    /\ LET points == OnePlusOne_internal_ask(oneplusone, num_ask, archive, dimension)
           strategy == OnePlusOneStrategy(oneplusone, num_ask, archive)
       IN  IF points = {}
           THEN \* _internal_ask raised: no point, the counter is not incremented
                /\ result' = CallResult("ask", NoPoint, Nothing, "error", strategy, Nothing)
                /\ UNCHANGED <<outstanding, hist, num_ask>>
           ELSE \E x \in points :
                /\ result' = CallResult("ask", x, Nothing, "ok", strategy, Nothing)
                /\ outstanding' = Append(outstanding, Asked(x, Nothing))
                /\ hist' = ScriptAfterAsk(hist, x)
                /\ num_ask' = num_ask + 1
    /\ UNCHANGED <<optimizer, dimension, budget, num_workers, eda, cma, spsa, num_tell, archive,
                   oneplusone, pso, portfolio>>

\* base.Optimizer.tell on a _OnePlusOne: the archive records the value, then
\* _internal_tell adapts the step size
OnePlusOneTell ==
    /\ optimizer = "OnePlusOne"
    /\ Running
    /\ num_ask + num_tell < MaxCallsOnePlusOne
    /\ \E x \in TellPoints : \E value \in TellValues(x, Values) :
        /\ archive' = ArchiveTell(archive, x, value)
        /\ oneplusone' = OnePlusOne_internal_tell(oneplusone, value, archive')
        /\ result' = CallResult("tell", x, Some(value), "ok", "", Nothing)
        /\ outstanding' = Answer(outstanding, x)
        /\ hist' = [ScriptAfterTell(hist, outstanding, x, value) EXCEPT
                        !.success = IF AtMostBestMean(value, archive', "pessimistic")
                                    THEN @ + 1 ELSE @,
                        !.failure = IF AtMostBestMean(value, archive', "pessimistic")
                                    THEN @ ELSE @ + 1,
                        !.misuse = @ \/ Misuse(x)]
    /\ num_tell' = num_tell + 1
    /\ UNCHANGED <<optimizer, dimension, budget, num_workers, eda, cma, spsa, num_ask, pso, portfolio>>

\* base.Optimizer.provide_recommendation on a _OnePlusOne
OnePlusOneRecommend ==
    /\ optimizer = "OnePlusOne"
    /\ Running
    /\ num_ask + num_tell > 0
    /\ result' = CallResult("recommend", BestX(archive, "pessimistic", dimension),
                              Nothing, "ok", "", Nothing)
    /\ UNCHANGED <<optimizer, dimension, budget, num_workers, eda, cma, spsa, num_ask, num_tell, archive,
                   oneplusone, pso, portfolio, outstanding, hist>>

NextOnePlusOne == OnePlusOneAsk \/ OnePlusOneTell \/ OnePlusOneRecommend

SpecOnePlusOne == InitOnePlusOne /\ [][NextOnePlusOne]_vars

\* runs in which the archive grows faster than the ask counter: the caller
\* also reports points it evaluated on its own, which tell accepts
\* (_internal_tell never looks at x)
MaxAsksStrategies == 4
MaxTellsStrategies == 3

\* the accepted configurations, in dimension 1
InitStrategies ==
    /\ InitOnePlusOne
    /\ dimension = 1
    /\ result.status = "ok"

\* base.Optimizer.ask on a _OnePlusOne
StrategyAsk ==
    /\ optimizer = "OnePlusOne"
    /\ num_ask < MaxAsksStrategies
    /\ LET points == OnePlusOne_internal_ask(oneplusone, num_ask, archive, dimension)
           strategy == OnePlusOneStrategy(oneplusone, num_ask, archive)
       IN  IF points = {}
           THEN /\ result' = CallResult("ask", NoPoint, Nothing, "error", strategy, Nothing)
                /\ UNCHANGED <<outstanding, hist, num_ask>>
           ELSE \E x \in points :
                /\ result' = CallResult("ask", x, Nothing, "ok", strategy, Nothing)
                /\ outstanding' = Append(outstanding, Asked(x, Nothing))
                /\ hist' = ScriptAfterAsk(hist, x)
                /\ num_ask' = num_ask + 1
    /\ UNCHANGED <<optimizer, dimension, budget, num_workers, eda, cma, spsa, num_tell, archive,
                   oneplusone, pso, portfolio>>

\* base.Optimizer.tell on a _OnePlusOne, of a point asked, already told, or
\* one of two points that no ask returned; two values are enough to tell
\* the optimistic and the pessimistic best apart
StrategyTell ==
    /\ optimizer = "OnePlusOne"
    /\ num_tell < MaxTellsStrategies
    /\ \E x \in TellPoints \cup {[i \in 1..dimension |-> 0 - 8]} :
       \E value \in TellValues(x, {v \in Values : v <= 5}) :
        /\ archive' = ArchiveTell(archive, x, value)
        /\ oneplusone' = OnePlusOne_internal_tell(oneplusone, value, archive')
        /\ result' = CallResult("tell", x, Some(value), "ok", "", Nothing)
        /\ outstanding' = Answer(outstanding, x)
        /\ hist' = [ScriptAfterTell(hist, outstanding, x, value) EXCEPT
                        !.success = IF AtMostBestMean(value, archive', "pessimistic")
                                    THEN @ + 1 ELSE @,
                        !.failure = IF AtMostBestMean(value, archive', "pessimistic")
                                    THEN @ ELSE @ + 1,
                        !.misuse = @ \/ Misuse(x)]
    /\ num_tell' = num_tell + 1
    /\ UNCHANGED <<optimizer, dimension, budget, num_workers, eda, cma, spsa, num_ask, pso, portfolio>>

NextStrategies == StrategyAsk \/ StrategyTell

SpecStrategies == InitStrategies /\ [][NextStrategies]_vars

----------------------------------------------------------------------------
(* PSO.                                                                    *)
(* Particle slots are 0..llambda-1 as in the source; the lists are indexed *)
(* by slot + 1.  A position is [kind, v]: a numpy array or a Python list   *)
(* with the coordinates v, in grid steps of 1/Unit.  Fitnesses are         *)
(* optional numbers: Nothing is float("inf") for the bests and None for    *)
(* pop_fitness.                                                            *)

\* self.omega = 0.5 / log(2), self.phip = self.phig = 0.5 + log(2), as fractions
omega == <<18, 25>>
phip == <<6, 5>>
phig == <<6, 5>>
\* 1. in grid steps: the PSO domain [0, 1] is the grid 0..Unit
Unit == 4
\* self.eps, as the smallest margin of the grid
eps == 1

\* draws of np.random.uniform(0., 1.) for a position, of np.random.uniform(-1., 1.)
\* for a speed (grid steps), of np.random.uniform(0., 1.) for rp and rg (fractions)
PositionDraws == {1, Unit - 1}
SpeedDraws == {1}
FactorDraws == {<<0, 1>>, <<1, 2>>}

\* objective values reported to a PSO
ValuesPSO == {3, 5}

\* values of num_workers tried
WorkersPSO == {1, 2}

\* value < fitness, fitness being float("inf") when Nothing
Improves(value, fitness) == fitness = Nothing \/ value < fitness[1]

\* stats.norm.ppf on the grid, in thousandths: increasing, odd around 1/2,
\* unbounded towards 0 and 1 (the rational (2u - 1) / (u (1 - u)), u = p / Unit)
Ppf(p) == (1000 * (2 * p - Unit) * Unit) \div (p * (Unit - p))

\* PSO.to_real, used as tuple(self.to_real(x))
to_real(v) == [i \in DOMAIN v |-> Ppf(v[i])]

\* locations[x] of the defaultdict(list), without inserting the key
Located(locations, x) == IF x \in DOMAIN locations THEN locations[x] ELSE <<>>

\* locations[x] = slots (the key is inserted when new)
Locate(locations, x, slots) ==
    [k \in (DOMAIN locations) \cup {x} |-> IF k = x THEN slots ELSE locations[k]]

\* PSO.__init__
PSOInit(workers) ==
    [llambda |-> Max(MinSwarm, workers),
     pop |-> <<>>, pop_speed |-> <<>>, pop_best |-> <<>>,
     pop_best_fitness |-> <<>>, pop_fitness |-> <<>>,
     pso_best |-> NoPoint, pso_best_fitness |-> Nothing,
     locations |-> <<>>,
     index |-> 0 - 1,
     queue |-> [i \in 1..Max(MinSwarm, workers) |-> i - 1]]

\* the loop of _internal_ask at index 0: the particles guys with speeds
\* speeds; pop and pop_best hold the same array until a tell replaces pop_best
Populate(ps, guys, speeds) ==
    [ps EXCEPT !.pso_best = NoPoint,
               !.pso_best_fitness = Nothing,
               !.pop = [i \in 1..ps.llambda |-> [kind |-> "array", v |-> guys[i]]],
               !.pop_best = [i \in 1..ps.llambda |-> guys[i]],
               !.pop_speed = speeds,
               !.pop_best_fitness = [i \in 1..ps.llambda |-> Nothing],
               !.pop_fitness = [i \in 1..ps.llambda |-> Nothing]]

\* one coordinate of the speed mutation
Velocity(speed, x, best, gbest, rp, rg) ==
    LET den == omega[2] * phip[2] * phig[2] * rp[2] * rg[2]
        inertia == omega[1] * phip[2] * phig[2] * rp[2] * rg[2] * speed
        cognitive == phip[1] * omega[2] * phig[2] * rp[1] * rg[2] * (best - x)
        social == phig[1] * omega[2] * phip[2] * rg[1] * rp[2] * (gbest - x)
    IN  (inertia + cognitive + social) \div den

\* position += speed: numpy adds the arrays, a Python list is extended
PlusEquals(position, speed) ==
    IF position.kind = "array"
    THEN [kind |-> "array", v |-> [i \in DOMAIN position.v |-> position.v[i] + speed[i]]]
    ELSE [kind |-> "list", v |-> position.v \o speed]

\* [max(0. + eps, min(1. - eps, x_)) for x_ in position]
Clamp(position) ==
    [kind |-> "list",
     v |-> [i \in DOMAIN position.v |-> Max(0 + eps, Min(Unit - eps, position.v[i]))]]

\* PSOEmit emitting every particle where it stands, told or not
PSOEmit_unmoved(ps, d) ==
    IF ps.queue = <<>>
    THEN {[pso |-> ps, x |-> NoPoint, status |-> "error", slot |-> Nothing]}
    ELSE LET location == ps.queue[1]
             guy == to_real(ps.pop[location + 1].v)
         IN  {[pso |-> [ps EXCEPT !.locations = Locate(@, guy, Append(Located(@, guy), location)),
                                  !.queue = Tail(@)],
               x |-> guy, status |-> "ok", slot |-> Some(location)]}

\* PSOEmit leaving the emitted particle in the queue
PSOEmit_keeps_queued(ps, d) ==
    IF ps.queue = <<>>
    THEN {[pso |-> ps, x |-> NoPoint, status |-> "error", slot |-> Nothing]}
    ELSE LET location == ps.queue[1]
             guy == to_real(ps.pop[location + 1].v)
         IN  {[pso |-> [ps EXCEPT !.locations = Locate(@, guy, Append(Located(@, guy), location))],
               x |-> guy, status |-> "ok", slot |-> Some(location)]}

\* PSOEmit refusing one ask too early: it raises while one particle is queued
PSOEmit_raises_early(ps, d) ==
    IF Len(ps.queue) <= 1
    THEN {[pso |-> ps, x |-> NoPoint, status |-> "error", slot |-> Nothing]}
    ELSE LET location == ps.queue[1]
             guy == to_real(ps.pop[location + 1].v)
         IN  {[pso |-> [ps EXCEPT !.locations = Locate(@, guy, Append(Located(@, guy), location)),
                                  !.queue = Tail(@)],
               x |-> guy, status |-> "ok", slot |-> Some(location)]}

\* PSO._internal_ask after the increment of index and the first-call loop:
\* the outcomes [pso, x, status, slot] of the call in state ps
PSOEmit(ps, d) ==
    IF ps.queue = <<>>
    THEN {[pso |-> ps, x |-> NoPoint, status |-> "error", slot |-> Nothing]}
    ELSE
      LET location == ps.queue[1]
          l == location + 1
      IN
      IF ps.pop_fitness[l] = Nothing
      THEN LET guy == to_real(ps.pop[l].v) IN
           {[pso |-> [ps EXCEPT !.locations = Locate(@, guy, Append(Located(@, guy), location)),
                                !.queue = Tail(@)],
             x |-> guy, status |-> "ok", slot |-> Some(location)]}
      ELSE
        { LET speed == [i \in 1..d |->
                           Velocity(ps.pop_speed[l][i], ps.pop[l].v[i], ps.pop_best[l][i],
                                    ps.pso_best[i], rp[i], rg[i])]
              moved == Clamp(PlusEquals(ps.pop[l], speed))
              guy == to_real(moved.v)
          IN  [pso |-> [ps EXCEPT !.pop_speed[l] = speed,
                                  !.pop[l] = moved,
                                  !.locations = Locate(@, guy, Append(Located(@, guy), location)),
                                  !.queue = Tail(@)],
               x |-> guy, status |-> "ok", slot |-> Some(location)]
          : rp \in [1..d -> FactorDraws], rg \in [1..d -> FactorDraws] }

\* PSO._internal_ask: the outcomes [pso, x, status, slot] of the call
PSO_internal_ask(ps, d) ==
    LET counted == [ps EXCEPT !.index = @ + 1] IN
    IF counted.index = 0
    THEN UNION { PSOEmit(Populate(counted, guys, speeds), d) :
                    guys \in [1..ps.llambda -> PointsOver(PositionDraws, d)],
                    speeds \in [1..ps.llambda -> PointsOver(SpeedDraws, d)] }
    ELSE PSOEmit(counted, d)

\* max and min of a non-empty list
MaxOf(v) == CHOOSE m \in {v[i] : i \in DOMAIN v} : \A i \in DOMAIN v : v[i] <= m
MinOf(v) == CHOOSE m \in {v[i] : i \in DOMAIN v} : \A i \in DOMAIN v : v[i] >= m

\* PSO._internal_tell recording a personal best only with a new global best
PSO_internal_tell_global_only(ps, x, value) ==
    IF Located(ps.locations, x) = <<>>
    THEN [pso |-> [ps EXCEPT !.locations = Locate(@, x, <<>>)],
          status |-> "error", slot |-> Nothing]
    ELSE
      LET location == ps.locations[x][1]
          l == location + 1
          position == ps.pop[l].v
          global == Improves(value, ps.pso_best_fitness)
      IN  [pso |-> [ps EXCEPT
                        !.pop_fitness[l] = Some(value),
                        !.pso_best = IF global THEN position ELSE @,
                        !.pso_best_fitness = IF global THEN Some(value) ELSE @,
                        !.pop_best[l] = IF global THEN position ELSE @,
                        !.pop_best_fitness[l] = IF global THEN Some(value) ELSE @,
                        !.locations[x] = Tail(@),
                        !.queue = Append(@, location)],
           status |-> "ok", slot |-> Some(location)]

\* PSO._internal_tell taking the newest pending slot of x instead of the oldest
PSO_internal_tell_newest(ps, x, value) ==
    IF Located(ps.locations, x) = <<>>
    THEN [pso |-> [ps EXCEPT !.locations = Locate(@, x, <<>>)],
          status |-> "error", slot |-> Nothing]
    ELSE
      LET location == ps.locations[x][Len(ps.locations[x])]
          l == location + 1
          position == ps.pop[l].v
          global == Improves(value, ps.pso_best_fitness)
          personal == Improves(value, ps.pop_best_fitness[l])
      IN  [pso |-> [ps EXCEPT
                        !.pop_fitness[l] = Some(value),
                        !.pso_best = IF global THEN position ELSE @,
                        !.pso_best_fitness = IF global THEN Some(value) ELSE @,
                        !.pop_best[l] = IF personal THEN position ELSE @,
                        !.pop_best_fitness[l] = IF personal THEN Some(value) ELSE @,
                        !.locations[x] = SubSeq(@, 1, Len(@) - 1),
                        !.queue = Append(@, location)],
           status |-> "ok", slot |-> Some(location)]

\* PSO._internal_tell putting the told slot at the front of the queue
PSO_internal_tell_front(ps, x, value) ==
    IF Located(ps.locations, x) = <<>>
    THEN [pso |-> [ps EXCEPT !.locations = Locate(@, x, <<>>)],
          status |-> "error", slot |-> Nothing]
    ELSE
      LET location == ps.locations[x][1]
          l == location + 1
          position == ps.pop[l].v
          global == Improves(value, ps.pso_best_fitness)
          personal == Improves(value, ps.pop_best_fitness[l])
      IN  [pso |-> [ps EXCEPT
                        !.pop_fitness[l] = Some(value),
                        !.pso_best = IF global THEN position ELSE @,
                        !.pso_best_fitness = IF global THEN Some(value) ELSE @,
                        !.pop_best[l] = IF personal THEN position ELSE @,
                        !.pop_best_fitness[l] = IF personal THEN Some(value) ELSE @,
                        !.locations[x] = Tail(@),
                        !.queue = <<location>> \o @],
           status |-> "ok", slot |-> Some(location)]

\* PSO._internal_tell: the outcome [pso, status, slot] of the call
PSO_internal_tell(ps, x, value) ==
    IF Located(ps.locations, x) = <<>>
    THEN \* assert self.locations[x]: the defaultdict has inserted the key
         [pso |-> [ps EXCEPT !.locations = Locate(@, x, <<>>)],
          status |-> "error", slot |-> Nothing]
    ELSE
      LET location == ps.locations[x][1]
          l == location + 1
          position == ps.pop[l].v
          global == Improves(value, ps.pso_best_fitness)
          personal == Improves(value, ps.pop_best_fitness[l])
      IN
      IF x # to_real(position)
      THEN [pso |-> ps, status |-> "error", slot |-> Some(location)]
      ELSE IF global /\ ~(MaxOf(position) < Unit /\ MinOf(position) > 0)
      THEN [pso |-> [ps EXCEPT !.pop_fitness[l] = Some(value)],
            status |-> "error", slot |-> Some(location)]
      ELSE [pso |-> [ps EXCEPT
                        !.pop_fitness[l] = Some(value),
                        !.pso_best = IF global THEN position ELSE @,
                        !.pso_best_fitness = IF global THEN Some(value) ELSE @,
                        !.pop_best[l] = IF personal THEN position ELSE @,
                        !.pop_best_fitness[l] = IF personal THEN Some(value) ELSE @,
                        !.locations[x] = Tail(@),
                        !.queue = Append(@, location)],
            status |-> "ok", slot |-> Some(location)]

\* history of a PSO run: whether the contract was broken, how many times each
\* particle was emitted, and the particles told and not yet emitted again, in
\* the order of their tells
NoPSOHist(n) == [misuse |-> FALSE, emitted |-> [i \in 1..n |-> 0], waiting |-> <<>>]

InitPSO ==
    /\ optimizer = "PSO"
    /\ dimension = 1
    /\ budget = Nothing
    /\ num_workers \in WorkersPSO
    /\ num_ask = 0
    /\ num_tell = 0
    /\ archive = <<>>
    /\ oneplusone = Unused
    /\ pso = PSOInit(num_workers)
    /\ portfolio = Unused
    /\ eda = Unused
    /\ cma = Unused
    /\ spsa = Unused
    /\ result = CallResult("init", NoPoint, Nothing, "ok", "", Nothing)
    /\ outstanding = <<>>
    /\ hist = NoPSOHist(pso.llambda)

\* base.Optimizer.ask on a PSO
PSOAsk ==
    /\ optimizer = "PSO"
    /\ Running
    /\ pso.index + 1 < pso.llambda + ExtraAsksPSO
    /\ \E out \in PSO_internal_ask(pso, dimension) :
        /\ pso' = out.pso
        /\ result' = CallResult("ask", out.x, Nothing, out.status, "", out.slot)
        /\ num_ask' = IF out.status = "ok" THEN num_ask + 1 ELSE num_ask
        /\ outstanding' = IF out.status = "ok"
                           THEN Append(outstanding, Asked(out.x, out.slot))
                           ELSE outstanding
        /\ hist' = IF out.status = "ok"
                   THEN [hist EXCEPT !.emitted[out.slot[1] + 1] = @ + 1,
                                     !.waiting = SelectSeq(@, LAMBDA j : j # out.slot[1])]
                   ELSE hist
    /\ UNCHANGED <<optimizer, dimension, budget, num_workers, eda, cma, spsa, num_tell, archive,
                   oneplusone, portfolio>>

\* base.Optimizer.tell on a PSO: the archive records the value, then _internal_tell
PSOTell ==
    /\ optimizer = "PSO"
    /\ Running
    /\ \E x \in TellPoints : \E value \in TellValues(x, ValuesPSO) :
        /\ LET out == PSO_internal_tell(pso, x, value) IN
            /\ pso' = out.pso
            /\ result' = CallResult("tell", x, Some(value), out.status, "", out.slot)
            /\ num_tell' = IF out.status = "ok" THEN num_tell + 1 ELSE num_tell
            /\ outstanding' = IF out.status = "ok" THEN Answer(outstanding, x) ELSE outstanding
            /\ hist' = [hist EXCEPT
                            !.misuse = @ \/ Misuse(x),
                            !.waiting = IF out.status = "ok"
                                        THEN Append(@, outstanding[Oldest(outstanding, x)].slot[1])
                                        ELSE @]
        /\ archive' = ArchiveTell(archive, x, value)
    /\ UNCHANGED <<optimizer, dimension, budget, num_workers, eda, cma, spsa, num_ask, oneplusone, portfolio>>

\* PSO._internal_provide_recommendation, once a global best exists
PSORecommend ==
    /\ optimizer = "PSO"
    /\ Running
    /\ pso.pso_best # NoPoint
    /\ result' = CallResult("recommend", to_real(pso.pso_best), Nothing, "ok", "", Nothing)
    /\ UNCHANGED <<optimizer, dimension, budget, num_workers, eda, cma, spsa, num_ask, num_tell, archive,
                   oneplusone, pso, portfolio, outstanding, hist>>

NextPSO == PSOAsk \/ PSOTell \/ PSORecommend

SpecPSO == InitPSO /\ [][NextPSO]_vars

----------------------------------------------------------------------------
(* Portfolio, ParaPortfolio and ASCMADEthird.                              *)
(* A sub-optimizer is [name, budget, num_workers, pending, told]: what it  *)
(* was built with, the points it returned and was not told yet, and the    *)
(* <<x, value>> pairs it was told, in order.  Index -1 of optims is the    *)
(* last sub-optimizer, as in Python.                                       *)

\* coordinates a sub-optimizer may return: every sub-optimizer can produce
\* every point, so two of them can have the same point outstanding
ChildDraws == {0, 1}

\* objective values reported to a portfolio
ValuesPortfolio == {3, 5}

\* a sub-optimizer as constructed
Child(name, child_budget, workers) ==
    [name |-> name, budget |-> child_budget, num_workers |-> workers,
     pending |-> <<>>, told |-> <<>>]

\* optims[i].ask(): the outcomes [child, x]
ChildAsk(child, d) ==
    { [child |-> [child EXCEPT !.pending = Append(@, x)], x |-> x] :
        x \in PointsOver(ChildDraws, d) }

\* optims[i].tell(x, value)
ChildTell(child, x, value) ==
    [child EXCEPT !.pending = IF IndexOf(@, x) = 0 THEN @ ELSE RemoveAt(@, IndexOf(@, x)),
                  !.told = Append(@, <<x, value>>)]

\* n % m > k as the integer Python adds to a budget share
Extra(n, m, k) == IF n % m > k THEN 1 ELSE 0

\* [v] * n
Repeat(v, n) == [i \in 1..n |-> v]

\* sum of f(i) over i in 1..n
RECURSIVE SumTo(_, _)
SumTo(f, n) == IF n = 0 THEN 0 ELSE f[n] + SumTo(f, n - 1)

\* the while loop of intshare: x[i] += 1, i += 1 as long as sum(x) < n
\* (i is the 0-based index of the code)
RECURSIVE Share(_, _, _)
Share(x, i, n) ==
    IF SumTo(x, Len(x)) < n THEN Share([x EXCEPT ![i + 1] = @ + 1], i + 1, n) ELSE x

\* intshare(n, m) giving the remainder to the last entries
intshare_late(n, m) == [i \in 1..m |-> (n \div m) + (IF i > m - (n % m) THEN 1 ELSE 0)]

\* intshare(n, m) of ParaPortfolio.__init__
intshare(n, m) == Share(Repeat(n \div m, m), 0, n)

\* the kinds of portfolio and the (budget, num_workers) each is built with
PortfolioConfigs ==
    {[kind |-> "Portfolio", budget |-> 12, num_workers |-> 1],
     [kind |-> "Portfolio", budget |-> 3, num_workers |-> 1],
     [kind |-> "ParaPortfolio", budget |-> 12, num_workers |-> 2],
     [kind |-> "ASCMADEthird", budget |-> 6, num_workers |-> 1],
     [kind |-> "ASCMADEthird", budget |-> 12, num_workers |-> 1]}

\* Portfolio.__init__
PortfolioInit(d, b, workers) ==
    [kind |-> "Portfolio",
     optims |-> IF b < 12 * workers
                THEN <<Child("ScrHammersleySearch", Some(b), workers)>>
                ELSE <<Child("CMA", Some((b \div 3) + Extra(b, 3, 0)), workers),
                       Child("TwoPointsDE", Some((b \div 3) + Extra(b, 3, 1)), workers),
                       Child("ScrHammersleySearch", Some(b \div 3), workers)>>,
     who_asked |-> <<>>,
     which_optim |-> <<>>,
     budget_before_choosing |-> 0,
     best_optim |-> 0 - 1]

\* ParaPortfolio.__init__
ParaPortfolioInit(d, b, workers) ==
    LET nw == intshare(workers - 1, 4)
        which == Repeat(0, nw[1]) \o Repeat(1, nw[2]) \o Repeat(2, nw[3]) \o <<3>>
                 \o Repeat(4, nw[4])
    IN  [PortfolioInit(d, b, workers) EXCEPT
            !.kind = "ParaPortfolio",
            !.which_optim = which,
            !.optims = <<Child("CMA", Nothing, nw[1]),
                         Child("TwoPointsDE", Nothing, nw[2]),
                         Child("PSO", Nothing, nw[3]),
                         Child("SQP", Some(1), 1),
                         Child("ScrHammersleySearch", Some((b \div Len(which)) * nw[4]), 1)>>]

\* ASCMADEthird.__init__
ASCMADEthirdInit(d, b, workers) ==
    [PortfolioInit(d, b, workers) EXCEPT
        !.kind = "ASCMADEthird",
        !.optims = <<Child("CMA", Nothing, workers), Child("LhsDE", Nothing, workers)>>,
        !.budget_before_choosing = b \div 3,
        !.best_optim = 0 - 1]

\* position in optims (1-based) of Python index i, negative indices counted
\* from the end
At(optims, i) == IF i < 0 THEN Len(optims) + i + 1 ELSE i + 1

\* the dispatch going on with the round-robin once the allowance is spent
Dispatch_never_commits(po, n_ask) ==
    IF po.kind = "ParaPortfolio"
    THEN [portfolio |-> po, optim_index |-> po.which_optim[(n_ask % Len(po.which_optim)) + 1]]
    ELSE [portfolio |-> [po EXCEPT !.budget_before_choosing = IF @ > 0 THEN @ - 1 ELSE @],
          optim_index |-> n_ask % Len(po.optims)]

\* the dispatch with the round-robin starting at the second sub-optimizer
Dispatch_shifted(po, n_ask) ==
    IF po.kind = "ParaPortfolio"
    THEN [portfolio |-> po, optim_index |-> po.which_optim[(n_ask % Len(po.which_optim)) + 1]]
    ELSE IF po.kind = "ASCMADEthird" /\ po.budget_before_choosing = 0
    THEN [portfolio |-> po, optim_index |-> po.best_optim]
    ELSE [portfolio |-> [po EXCEPT !.budget_before_choosing = IF @ > 0 THEN @ - 1 ELSE @],
          optim_index |-> (n_ask + 1) % Len(po.optims)]

\* the index _internal_ask dispatches to, and the portfolio after the choice
Dispatch(po, n_ask) ==
    IF po.kind = "ParaPortfolio"
    THEN [portfolio |-> po, optim_index |-> po.which_optim[(n_ask % Len(po.which_optim)) + 1]]
    ELSE IF po.kind = "ASCMADEthird"
    THEN IF po.budget_before_choosing > 0
         THEN [portfolio |-> [po EXCEPT !.budget_before_choosing = @ - 1],
               optim_index |-> n_ask % Len(po.optims)]
         ELSE \* best_optim is -1, never None: the selection loop is skipped
              [portfolio |-> po, optim_index |-> po.best_optim]
    ELSE [portfolio |-> po, optim_index |-> n_ask % Len(po.optims)]

\* Portfolio._internal_ask recording the next sub-optimizer as the producer
Portfolio_internal_ask_misrecorded(po, n_ask, d) ==
    LET chosen == Dispatch(po, n_ask)
        optim_index == chosen.optim_index
        k == At(po.optims, optim_index)
        recorded == (optim_index + 1) % Len(po.optims)
    IN  { [portfolio |-> [chosen.portfolio EXCEPT
                            !.optims[k] = out.child,
                            !.who_asked = Locate(@, out.x, Append(Located(@, out.x), recorded))],
           x |-> out.x, status |-> "ok", slot |-> Some(optim_index)] :
            out \in ChildAsk(po.optims[k], d) }

\* Portfolio._internal_ask and its overrides: the outcomes [portfolio, x, slot]
Portfolio_internal_ask(po, n_ask, d) ==
    LET chosen == Dispatch(po, n_ask)
        optim_index == chosen.optim_index
        k == At(po.optims, optim_index)
    IN  { [portfolio |-> [chosen.portfolio EXCEPT
                            !.optims[k] = out.child,
                            !.who_asked = Locate(@, out.x, Append(Located(@, out.x), optim_index))],
           x |-> out.x, status |-> "ok", slot |-> Some(optim_index)] :
            out \in ChildAsk(po.optims[k], d) }

\* Portfolio._internal_tell forwarding to the newest producer of x
Portfolio_internal_tell_newest(po, x, value) ==
    IF Located(po.who_asked, x) = <<>>
    THEN [portfolio |-> [po EXCEPT !.who_asked = Locate(@, x, <<>>)],
          status |-> "error", slot |-> Nothing]
    ELSE LET n == Len(po.who_asked[x])
             optim_index == po.who_asked[x][n]
             k == At(po.optims, optim_index)
         IN  [portfolio |-> [po EXCEPT !.who_asked[x] = SubSeq(@, 1, n - 1),
                                       !.optims[k] = ChildTell(@, x, value)],
              status |-> "ok", slot |-> Some(optim_index)]

\* Portfolio._internal_tell: the outcome [portfolio, status, slot]
Portfolio_internal_tell(po, x, value) ==
    IF Located(po.who_asked, x) = <<>>
    THEN \* self.who_asked[tx][0] raises IndexError; the defaultdict has the key
         [portfolio |-> [po EXCEPT !.who_asked = Locate(@, x, <<>>)],
          status |-> "error", slot |-> Nothing]
    ELSE LET optim_index == po.who_asked[x][1]
             k == At(po.optims, optim_index)
         IN  [portfolio |-> [po EXCEPT !.who_asked[x] = Tail(@),
                                       !.optims[k] = ChildTell(@, x, value)],
              status |-> "ok", slot |-> Some(optim_index)]

\* history of a portfolio run: whether the contract was broken, and the
\* sub-optimizer (position in optims) each ask was delegated to
NoPortfolioHist == [misuse |-> FALSE, dispatched |-> <<>>]

InitPortfolio ==
    /\ optimizer = "Portfolio"
    /\ dimension = 1
    /\ \E c \in PortfolioConfigs :
        /\ budget = Some(c.budget)
        /\ num_workers = c.num_workers
        /\ portfolio = IF c.kind = "ParaPortfolio"
                       THEN ParaPortfolioInit(dimension, c.budget, c.num_workers)
                       ELSE IF c.kind = "ASCMADEthird"
                       THEN ASCMADEthirdInit(dimension, c.budget, c.num_workers)
                       ELSE PortfolioInit(dimension, c.budget, c.num_workers)
    /\ num_ask = 0
    /\ num_tell = 0
    /\ archive = <<>>
    /\ oneplusone = Unused
    /\ pso = Unused
    /\ eda = Unused
    /\ cma = Unused
    /\ spsa = Unused
    /\ result = CallResult("init", NoPoint, Nothing, "ok", "", Nothing)
    /\ outstanding = <<>>
    /\ hist = NoPortfolioHist

\* base.Optimizer.ask on a portfolio
PortfolioAsk ==
    /\ optimizer = "Portfolio"
    /\ Running
    /\ num_ask < MaxAsksPortfolio
    /\ \E out \in Portfolio_internal_ask(portfolio, num_ask, dimension) :
        /\ portfolio' = out.portfolio
        /\ result' = CallResult("ask", out.x, Nothing, "ok", "", out.slot)
        /\ outstanding' = Append(outstanding,
                                  Asked(out.x, Some(At(portfolio.optims, out.slot[1]))))
        /\ hist' = [hist EXCEPT !.dispatched = Append(@, At(portfolio.optims, out.slot[1]))]
    /\ num_ask' = num_ask + 1
    /\ UNCHANGED <<optimizer, dimension, budget, num_workers, eda, cma, spsa, num_tell, archive,
                   oneplusone, pso>>

\* base.Optimizer.tell on a portfolio: the archive records the value, then
\* _internal_tell
PortfolioTell ==
    /\ optimizer = "Portfolio"
    /\ Running
    /\ \E x \in TellPoints : \E value \in TellValues(x, ValuesPortfolio) :
        /\ LET out == Portfolio_internal_tell(portfolio, x, value) IN
            /\ portfolio' = out.portfolio
            /\ result' = CallResult("tell", x, Some(value), out.status, "", out.slot)
            /\ num_tell' = IF out.status = "ok" THEN num_tell + 1 ELSE num_tell
            /\ outstanding' = IF out.status = "ok" THEN Answer(outstanding, x) ELSE outstanding
        /\ archive' = ArchiveTell(archive, x, value)
        /\ hist' = [hist EXCEPT !.misuse = @ \/ Misuse(x)]
    /\ UNCHANGED <<optimizer, dimension, budget, num_workers, eda, cma, spsa, num_ask, oneplusone, pso>>

\* Portfolio._internal_provide_recommendation, once a value was recorded
PortfolioRecommend ==
    /\ optimizer = "Portfolio"
    /\ Running
    /\ archive # <<>>
    /\ result' = CallResult("recommend", BestX(archive, "pessimistic", dimension),
                            Nothing, "ok", "", Nothing)
    /\ UNCHANGED <<optimizer, dimension, budget, num_workers, eda, cma, spsa, num_ask, num_tell, archive,
                   oneplusone, pso, portfolio, outstanding, hist>>

NextPortfolio == PortfolioAsk \/ PortfolioTell \/ PortfolioRecommend

SpecPortfolio == InitPortfolio /\ [][NextPortfolio]_vars

\* the portfolios above and ParaPortfolio built for more worker counts
DelegationConfigs ==
    PortfolioConfigs \cup
        {[kind |-> "ParaPortfolio", budget |-> 12, num_workers |-> w] : w \in {1, 3, 4, 5, 6, 7}}

\* Portfolio.__init__ / ParaPortfolio.__init__ / ASCMADEthird.__init__
InitDelegation ==
    /\ optimizer = "Portfolio"
    /\ dimension = 1
    /\ \E c \in DelegationConfigs :
        /\ budget = Some(c.budget)
        /\ num_workers = c.num_workers
        /\ portfolio = IF c.kind = "ParaPortfolio"
                       THEN ParaPortfolioInit(dimension, c.budget, c.num_workers)
                       ELSE IF c.kind = "ASCMADEthird"
                       THEN ASCMADEthirdInit(dimension, c.budget, c.num_workers)
                       ELSE PortfolioInit(dimension, c.budget, c.num_workers)
    /\ num_ask = 0
    /\ num_tell = 0
    /\ archive = <<>>
    /\ oneplusone = Unused
    /\ pso = Unused
    /\ eda = Unused
    /\ cma = Unused
    /\ spsa = Unused
    /\ result = CallResult("init", NoPoint, Nothing, "ok", "", Nothing)
    /\ outstanding = <<>>
    /\ hist = NoPortfolioHist

SpecDelegation == InitDelegation /\ [][NextPortfolio]_vars

----------------------------------------------------------------------------
(* EDA, PCEDA, MPCEDA, MEDA and TBPSA.                                      *)
(* sigma and the step size of an individual are carried by their logarithm *)
(* to base 2, so that sigma = 1 is level 0.  A covariance is [kind, m]: a  *)
(* matrix in tenths, the 0-d array np.cov returns for a single variable    *)
(* ("scalar"), or "none" for TBPSA, which has no covariance.  The parallel *)
(* lists of a cohort are one list of records: unevaluated entries are      *)
(* [x, sigma], evaluated entries [x, sigma, fitness].                      *)

\* draws of np.random.normal(0, 1) / np.sqrt(dimension) for a step size, in
\* levels, and of a standard normal coordinate
SigmaDraws == {0, 1}
CoordinateDraws == {0, 1}

\* objective values reported to an EDA or a TBPSA
ValuesEDA == {3, 5}

\* the classes of the family and the arguments each is built with
EDAConfigs ==
    {[variant |-> "EDA", dimension |-> 1, num_workers |-> 1],
     [variant |-> "TBPSA", dimension |-> 1, num_workers |-> 1]}

\* np.identity(dimension), in tenths
Identity(d) == [kind |-> "matrix", m |-> [i \in 1..d |-> [j \in 1..d |-> IF i = j THEN 10 ELSE 0]]]
NoCovariance == [kind |-> "none", m |-> <<>>]

\* EDA.__init__ and TBPSA.__init__
EDAInit(variant, d, workers) ==
    [variant |-> variant,
     sigma |-> 0,
     covariance |-> IF variant = "TBPSA" THEN NoCovariance ELSE Identity(d),
     mu |-> d,
     llambda |-> Max(4 * d, workers),
     current_center |-> Zeros(d),
     evaluated_population |-> <<>>,
     unevaluated_population |-> <<>>,
     archive_fitness |-> <<>>]

\* v times 2 ^ level
Scale(level, v) == IF level >= 0 THEN v * Pow(2, level) ELSE v \div Pow(2, 0 - level)

\* a sample of np.random.multivariate_normal(center, covariance): the center
\* moved by the covariance applied to a standard draw
Sample(center, covariance, draw) ==
    LET d == Len(center) IN
    [i \in 1..d |->
        center[i] + (SumTo([j \in 1..d |-> covariance.m[i][j] * draw[j]], d) \div 10)]

\* EDA._internal_ask (inherited by PCEDA, MPCEDA, MEDA) and TBPSA._internal_ask:
\* the outcomes [eda, x, status]
EDA_internal_ask(e, d) ==
    IF e.variant # "TBPSA" /\ e.covariance.kind = "scalar"
    THEN \* len(self.covariance) raises TypeError on a 0-d array
         {[eda |-> e, x |-> NoPoint, status |-> "error"]}
    ELSE
      { LET mutated_sigma == e.sigma + n
            individual ==
                IF e.variant = "TBPSA"
                THEN [i \in 1..d |-> e.current_center[i] + Scale(mutated_sigma, draw[i])]
                ELSE LET z == Sample(e.current_center, e.covariance, draw)
                     IN  [i \in 1..d |-> Scale(mutated_sigma, z[i])]
        IN  [eda |-> [e EXCEPT !.unevaluated_population =
                                    Append(@, [x |-> individual, sigma |-> mutated_sigma])],
             x |-> individual, status |-> "ok"]
        : n \in SigmaDraws, draw \in [1..d -> CoordinateDraws] }

\* tuple comparison a < b of two points
PointLess(a, b) ==
    \E i \in 1..Len(a) : a[i] < b[i] /\ \A j \in 1..(i - 1) : a[j] = b[j]

\* (fitness, point, sigma) of a comes no later than that of b in sorted(zip(...))
NoLater(a, b) ==
    \/ a.fitness < b.fitness
    \/ a.fitness = b.fitness /\ PointLess(a.x, b.x)
    \/ a.fitness = b.fitness /\ a.x = b.x /\ a.sigma <= b.sigma

\* sorted(zip(fitness, population, sigma)), by insertion
RECURSIVE SortCohort(_)
SortCohort(cohort) ==
    IF cohort = <<>> THEN <<>>
    ELSE LET rest == SortCohort(Tail(cohort))
             a == Head(cohort)
             before == SelectSeq(rest, LAMBDA b : ~NoLater(a, b))
             after == SelectSeq(rest, LAMBDA b : NoLater(a, b))
         IN  before \o <<a>> \o after

\* scale * np.cov(np.array(population).T) in tenths, scale in tenths
Cov(cohort, d, scale) ==
    LET n == Len(cohort)
        entry(i, j) ==
            (scale * (n * SumTo([k \in 1..n |-> cohort[k].x[i] * cohort[k].x[j]], n)
                      - SumTo([k \in 1..n |-> cohort[k].x[i]], n)
                        * SumTo([k \in 1..n |-> cohort[k].x[j]], n)))
            \div (n * (n - 1))
    IN  IF d = 1
        THEN [kind |-> "scalar", m |-> entry(1, 1)]
        ELSE [kind |-> "matrix", m |-> [i \in 1..d |-> [j \in 1..d |-> entry(i, j)]]]

\* self.covariance *= .9; self.covariance += .1 * np.cov(...): in place, the
\* matrix keeps its shape and a 0-d estimate is broadcast
Blend(covariance, estimate) ==
    [kind |-> "matrix",
     m |-> [i \in DOMAIN covariance.m |-> [j \in DOMAIN covariance.m |->
              ((9 * covariance.m[i][j]) \div 10)
              + (IF estimate.kind = "scalar" THEN estimate.m ELSE estimate.m[i][j])]]]

\* the covariance after a re-estimation from the sorted cohort
NewCovariance(e, sorted, d) ==
    IF e.variant = "TBPSA" THEN e.covariance
    ELSE IF e.variant = "EDA" THEN Cov(sorted, d, 1)
    ELSE IF e.variant = "PCEDA" THEN Cov(sorted, d, 10)
    ELSE Blend(e.covariance, Cov(sorted, d, 1))

\* the re-estimation at the end of _internal_tell: the cohort is sorted, the
\* center is the mean of the best mu points and sigma the geometric mean of
\* their step sizes
Reestimate(e, d) ==
    LET sorted == SortCohort(e.evaluated_population) IN
    [e EXCEPT
        !.covariance = NewCovariance(e, sorted, d),
        !.current_center =
            [i \in 1..d |-> SumTo([k \in 1..e.mu |-> sorted[k].x[i]], e.mu) \div e.mu],
        !.sigma = SumTo([k \in 1..e.mu |-> sorted[k].sigma], e.mu) \div e.mu,
        !.evaluated_population = <<>>]

\* z < 2. for z = (mean1 - mean2) / sqrt(std1**2 + std2**2); a zero divisor
\* gives inf, -inf or nan
ZBelowTwo(first_fifth, last_fifth, llambda) ==
    LET s1 == SumTo(first_fifth, llambda)
        s2 == SumTo(last_fifth, llambda)
        q1 == SumTo([i \in 1..llambda |-> first_fifth[i] * first_fifth[i]], llambda)
        q2 == SumTo([i \in 1..llambda |-> last_fifth[i] * last_fifth[i]], llambda)
        spread == (llambda * q1 - s1 * s1) + (llambda * q2 - s2 * s2)
    IN  \/ s1 - s2 < 0
        \/ spread > 0 /\ (s1 - s2) * (s1 - s2) * (llambda - 1) < 4 * spread

\* the population-size test adapting mu and leaving llambda alone
PopulationSizeTest_keeps_llambda(e, value, d, workers) ==
    LET fitness == Append(e.archive_fitness, value)
        l == e.llambda
    IN
    IF Len(fitness) < 5 * l THEN [e EXCEPT !.archive_fitness = fitness]
    ELSE [e EXCEPT !.mu = IF ZBelowTwo(SubSeq(fitness, 1, l),
                                       SubSeq(fitness, 4 * l + 1, 5 * l), l)
                          THEN 2 * e.mu
                          ELSE Max((e.mu * 84) \div 100, d),
                   !.archive_fitness = <<>>]

\* the population-size test run with llambda archived values
PopulationSizeTest_every_cohort(e, value, d, workers) ==
    LET fitness == Append(e.archive_fitness, value)
        l == e.llambda
    IN
    IF Len(fitness) < l THEN [e EXCEPT !.archive_fitness = fitness]
    ELSE
      LET mu == IF ZBelowTwo(fitness, fitness, l) THEN 2 * e.mu
                ELSE Max((e.mu * 84) \div 100, d)
      IN  [e EXCEPT !.mu = IF workers > 1 THEN Max(4 * mu, workers) \div 4 ELSE mu,
                    !.llambda = IF workers > 1 THEN Max(4 * mu, workers) ELSE 4 * mu,
                    !.archive_fitness = <<>>]

\* the head of _internal_tell of PCEDA, MPCEDA and TBPSA: the value is
\* archived and, with 5 * llambda values, mu and llambda are adapted
PopulationSizeTest(e, value, d, workers) ==
    LET fitness == Append(e.archive_fitness, value)
        l == e.llambda
    IN
    IF Len(fitness) < 5 * l THEN [e EXCEPT !.archive_fitness = fitness]
    ELSE
      LET first_fifth == SubSeq(fitness, 1, l)
          last_fifth == SubSeq(fitness, 4 * l + 1, 5 * l)
          mu == IF ZBelowTwo(first_fifth, last_fifth, l)
                THEN 2 * e.mu
                ELSE Max((e.mu * 84) \div 100, d)
      IN  [e EXCEPT !.mu = IF workers > 1 THEN Max(4 * mu, workers) \div 4 ELSE mu,
                    !.llambda = IF workers > 1 THEN Max(4 * mu, workers) ELSE 4 * mu,
                    !.archive_fitness = <<>>]

\* self.unevaluated_population.index(tuple(x)), 1-based, 0 when it raises
CohortIndex(cohort, x) ==
    IF \E i \in 1..Len(cohort) : cohort[i].x = x
    THEN CHOOSE i \in 1..Len(cohort) :
            cohort[i].x = x /\ \A j \in 1..(i - 1) : cohort[j].x # x
    ELSE 0

\* _internal_tell removing the newest entry of x and counting it twice
EDA_internal_tell_twice(e, x, value, d, workers) ==
    LET idx == CohortIndex(e.unevaluated_population, x) IN
    IF idx = 0 THEN [eda |-> e, status |-> "error"]
    ELSE [eda |-> [e EXCEPT !.unevaluated_population =
                                IF Len(@) >= 2 THEN RemoveAt(RemoveAt(@, idx), 1)
                                ELSE RemoveAt(@, idx)],
          status |-> "ok"]

\* _internal_tell re-estimating one individual before the cohort is complete
EDA_internal_tell_early(e, x, value, d, workers) ==
    LET idx == CohortIndex(e.unevaluated_population, x) IN
    IF idx = 0 THEN [eda |-> e, status |-> "error"]
    ELSE
      LET moved == [e EXCEPT
                      !.evaluated_population =
                          Append(@, [x |-> x,
                                     sigma |-> e.unevaluated_population[idx].sigma,
                                     fitness |-> value]),
                      !.unevaluated_population = RemoveAt(@, idx)]
      IN  [eda |-> IF Len(moved.evaluated_population) >= moved.llambda - 1
                   THEN Reestimate(moved, d)
                   ELSE moved,
           status |-> "ok"]

\* _internal_tell comparing the cohort with the llambda it had on entry when
\* the population-size test has lowered it
EDA_internal_tell_entry_llambda(e, x, value, d, workers) ==
    LET tested == IF e.variant \in {"PCEDA", "MPCEDA", "TBPSA"}
                  THEN PopulationSizeTest(e, value, d, workers)
                  ELSE e
        idx == CohortIndex(tested.unevaluated_population, x)
    IN
    IF idx = 0 THEN [eda |-> tested, status |-> "error"]
    ELSE
      LET moved == [tested EXCEPT
                      !.evaluated_population =
                          Append(@, [x |-> x,
                                     sigma |-> tested.unevaluated_population[idx].sigma,
                                     fitness |-> value]),
                      !.unevaluated_population = RemoveAt(@, idx)]
      IN  [eda |-> IF Len(moved.evaluated_population) >= Max(e.llambda, moved.llambda)
                   THEN Reestimate(moved, d)
                   ELSE moved,
           status |-> "ok"]

\* EDA._internal_tell, PCEDA._internal_tell, MPCEDA._internal_tell,
\* MEDA._internal_tell and TBPSA._internal_tell: the outcome [eda, status]
EDA_internal_tell(e, x, value, d, workers) ==
    LET tested == IF e.variant \in {"PCEDA", "MPCEDA", "TBPSA"}
                  THEN PopulationSizeTest(e, value, d, workers)
                  ELSE e
        idx == CohortIndex(tested.unevaluated_population, x)
    IN
    IF idx = 0
    THEN \* list.index raises ValueError
         [eda |-> tested, status |-> "error"]
    ELSE
      LET moved == [tested EXCEPT
                      !.evaluated_population =
                          Append(@, [x |-> x,
                                     sigma |-> tested.unevaluated_population[idx].sigma,
                                     fitness |-> value]),
                      !.unevaluated_population = RemoveAt(@, idx)]
      IN  [eda |-> IF Len(moved.evaluated_population) >= moved.llambda
                   THEN Reestimate(moved, d)
                   ELSE moved,
           status |-> "ok"]

\* history of a run: whether the contract was broken
NoHist == [misuse |-> FALSE]

InitEDA ==
    /\ optimizer = "EDA"
    /\ \E c \in EDAConfigs :
        /\ dimension = c.dimension
        /\ num_workers = c.num_workers
        /\ eda = EDAInit(c.variant, c.dimension, c.num_workers)
    /\ budget = Nothing
    /\ num_ask = 0
    /\ num_tell = 0
    /\ archive = <<>>
    /\ oneplusone = Unused
    /\ pso = Unused
    /\ portfolio = Unused
    /\ cma = Unused
    /\ spsa = Unused
    /\ result = CallResult("init", NoPoint, Nothing, "ok", "", Nothing)
    /\ outstanding = <<>>
    /\ hist = NoHist

\* base.Optimizer.ask on an EDA or a TBPSA
EDAAsk ==
    /\ optimizer = "EDA"
    /\ Running
    /\ num_ask < MaxAsksEDA
    /\ \E out \in EDA_internal_ask(eda, dimension) :
        /\ eda' = out.eda
        /\ result' = CallResult("ask", out.x, Nothing, out.status, "", Nothing)
        /\ num_ask' = IF out.status = "ok" THEN num_ask + 1 ELSE num_ask
        /\ outstanding' = IF out.status = "ok"
                           THEN Append(outstanding, Asked(out.x, Nothing))
                           ELSE outstanding
    /\ UNCHANGED <<optimizer, dimension, budget, num_workers, num_tell, archive,
                   oneplusone, pso, portfolio, cma, spsa, hist>>

\* base.Optimizer.tell on an EDA or a TBPSA: the archive records the value,
\* then _internal_tell
EDATell ==
    /\ optimizer = "EDA"
    /\ Running
    /\ \E x \in TellPoints : \E value \in TellValues(x, ValuesEDA) :
        /\ LET out == EDA_internal_tell(eda, x, value, dimension, num_workers) IN
            /\ eda' = out.eda
            /\ result' = CallResult("tell", x, Some(value), out.status, "", Nothing)
            /\ num_tell' = IF out.status = "ok" THEN num_tell + 1 ELSE num_tell
            /\ outstanding' = IF out.status = "ok" THEN Answer(outstanding, x) ELSE outstanding
        /\ archive' = ArchiveTell(archive, x, value)
        /\ hist' = [hist EXCEPT !.misuse = @ \/ Misuse(x)]
    /\ UNCHANGED <<optimizer, dimension, budget, num_workers, num_ask,
                   oneplusone, pso, portfolio, cma, spsa>>

\* EDA._internal_provide_recommendation and TBPSA._internal_provide_recommendation
EDARecommend ==
    /\ optimizer = "EDA"
    /\ Running
    /\ result' = CallResult("recommend", eda.current_center, Nothing, "ok", "", Nothing)
    /\ UNCHANGED <<optimizer, dimension, budget, num_workers, num_ask, num_tell, archive,
                   oneplusone, pso, portfolio, eda, cma, spsa, outstanding, hist>>

NextEDA == EDAAsk \/ EDATell \/ EDARecommend

SpecEDA == InitEDA /\ [][NextEDA]_vars

\* Long sequential runs of the family: one evaluation at a time, every draw
\* of the sampling zero, the reported value free for the first tells and the
\* lowest one afterwards.

\* the five classes of the family
CohortConfigs ==
    {[variant |-> v, dimension |-> 1, num_workers |-> 1] :
        v \in {"EDA", "PCEDA", "MPCEDA", "MEDA", "TBPSA"}}
    \cup {[variant |-> "TBPSA", dimension |-> 1, num_workers |-> 9]}

\* the outcomes of _internal_ask whose draws are zero: the individual is the
\* center (scaled by the step size outside TBPSA) at the parent's step size
ZeroDraws(e, d) ==
    {out \in EDA_internal_ask(e, d) :
        \/ out.status = "error"
        \/ /\ out.eda.unevaluated_population[Len(out.eda.unevaluated_population)].sigma
                = e.sigma
           /\ out.x = IF e.variant = "TBPSA" THEN e.current_center
                      ELSE [i \in 1..d |-> Scale(e.sigma, e.current_center[i])]}

\* the values the caller reports in the n-th tell of a long run
CohortValues(n) ==
    IF n < FreeTells THEN ValuesEDA
    ELSE {CHOOSE v \in ValuesEDA : \A w \in ValuesEDA : v <= w}

InitCohorts ==
    /\ optimizer = "EDA"
    /\ \E c \in CohortConfigs :
        /\ dimension = c.dimension
        /\ num_workers = c.num_workers
        /\ eda = EDAInit(c.variant, c.dimension, c.num_workers)
    /\ budget = Nothing
    /\ num_ask = 0
    /\ num_tell = 0
    /\ archive = <<>>
    /\ oneplusone = Unused
    /\ pso = Unused
    /\ portfolio = Unused
    /\ cma = Unused
    /\ spsa = Unused
    /\ result = CallResult("init", NoPoint, Nothing, "ok", "", Nothing)
    /\ outstanding = <<>>
    /\ hist = NoHist

\* base.Optimizer.ask once the previous point has been told
CohortAsk ==
    /\ optimizer = "EDA"
    /\ num_ask = num_tell
    /\ num_ask < MaxTellsCohorts
    /\ ~(result.op = "ask" /\ result.status = "error")
    /\ \E out \in ZeroDraws(eda, dimension) :
        /\ eda' = out.eda
        /\ result' = CallResult("ask", out.x, Nothing, out.status, "", Nothing)
        /\ num_ask' = IF out.status = "ok" THEN num_ask + 1 ELSE num_ask
        /\ outstanding' = IF out.status = "ok"
                           THEN Append(outstanding, Asked(out.x, Nothing))
                           ELSE outstanding
    /\ UNCHANGED <<optimizer, dimension, budget, num_workers, num_tell, archive,
                   oneplusone, pso, portfolio, cma, spsa, hist>>

\* base.Optimizer.tell of the point just asked
CohortTell ==
    /\ optimizer = "EDA"
    /\ result.op = "ask" /\ result.status = "ok"
    /\ \E value \in CohortValues(num_tell) :
        LET x == result.x
            out == EDA_internal_tell(eda, x, value, dimension, num_workers)
        IN  /\ eda' = out.eda
            /\ result' = CallResult("tell", x, Some(value), out.status, "", Nothing)
            /\ num_tell' = IF out.status = "ok" THEN num_tell + 1 ELSE num_tell
            /\ outstanding' = IF out.status = "ok" THEN Answer(outstanding, x)
                               ELSE outstanding
            /\ archive' = ArchiveTell(archive, x, value)
    /\ UNCHANGED <<optimizer, dimension, budget, num_workers, num_ask,
                   oneplusone, pso, portfolio, cma, spsa, hist>>

NextCohorts == CohortAsk \/ CohortTell

SpecCohorts == InitCohorts /\ [][NextCohorts]_vars

----------------------------------------------------------------------------
(* CMA.                                                                    *)
(* The solver cma.CMAEvolutionStrategy is opaque: es is NoSolver (None) or *)
(* [popsize, asked, told, xbest], the number of batches it handed out, the *)
(* batches it accepted and the best point it was told.  A batch it hands   *)
(* out is any list of popsize points; a batch it is told it accepts or     *)
(* rejects with RuntimeError.                                              *)

\* objective values reported to a CMA
ValuesCMA == {3, 5}

\* int(3 * np.log(dimension)) for the dimensions of the model
ThreeLog(d) == IF d = 1 THEN 0 ELSE IF d = 2 THEN 2 ELSE 3

NoSolver == [popsize |-> 0, asked |-> 0, told |-> <<>>, xbest |-> NoPoint, built |-> FALSE]

\* CMA.__init__
CMAInit(d, workers) ==
    [es |-> NoSolver,
     _cma_init |-> [x0 |-> Zeros(d), sigma0 |-> 1, popsize |-> Max(workers, 4 + ThreeLog(d))],
     listx |-> <<>>, listy |-> <<>>, to_be_asked |-> <<>>]

\* cma.CMAEvolutionStrategy(**self._cma_init) when self.es is None
Built(c) ==
    IF c.es.built THEN c
    ELSE [c EXCEPT !.es = [NoSolver EXCEPT !.popsize = c._cma_init.popsize, !.built = TRUE]]

\* the batches self.es.ask() may return: popsize different points, or popsize
\* times the same point
Batches(popsize, d) ==
    {[i \in 1..popsize |-> [j \in 1..d |-> i]], [i \in 1..popsize |-> [j \in 1..d |-> 1]]}

\* index of the first lowest value of a non-empty list
ArgMin(ys) == CHOOSE i \in 1..Len(ys) :
                /\ \A j \in 1..Len(ys) : ys[i] <= ys[j]
                /\ \A j \in 1..(i - 1) : ys[j] > ys[i]

\* self.es.tell(listx, listy) accepted by the solver
Submitted(es, listx, listy) ==
    [es EXCEPT !.told = Append(@, [x |-> listx, y |-> listy]),
               !.xbest = listx[ArgMin(listy)]]

\* CMA._internal_ask requesting a batch at every call
CMA_internal_ask_eager(c, d) ==
    LET built == Built(c) IN
    {[cma |-> [built EXCEPT !.es.asked = @ + 1, !.to_be_asked = Tail(batch)],
      x |-> Head(batch)] : batch \in Batches(built.es.popsize, d)}

\* CMA._internal_ask: the outcomes [cma, x]
CMA_internal_ask(c, d) ==
    LET built == Built(c) IN
    IF built.to_be_asked # <<>>
    THEN {[cma |-> [built EXCEPT !.to_be_asked = Tail(@)], x |-> Head(built.to_be_asked)]}
    ELSE {[cma |-> [built EXCEPT !.es.asked = @ + 1, !.to_be_asked = Tail(batch)],
           x |-> Head(batch)] : batch \in Batches(built.es.popsize, d)}

\* CMA._internal_tell: the outcomes [cma, note]; the call never raises
CMA_internal_tell(c, x, value) ==
    LET built == Built(c)
        buffered == [built EXCEPT !.listx = Append(@, x), !.listy = Append(@, value)]
    IN
    IF Len(buffered.listx) >= buffered.es.popsize
    THEN {[cma |-> [buffered EXCEPT !.es = Submitted(@, buffered.listx, buffered.listy),
                                    !.listx = <<>>, !.listy = <<>>],
           note |-> "submitted"],
          \* except RuntimeError: pass
          [cma |-> buffered, note |-> "rejected"]}
    ELSE {[cma |-> buffered, note |-> "buffered"]}

InitCMA ==
    /\ optimizer = "CMA"
    /\ dimension = 1
    /\ budget = Nothing
    /\ num_workers = 1
    /\ num_ask = 0
    /\ num_tell = 0
    /\ archive = <<>>
    /\ oneplusone = Unused
    /\ pso = Unused
    /\ portfolio = Unused
    /\ eda = Unused
    /\ cma = CMAInit(dimension, num_workers)
    /\ spsa = Unused
    /\ result = CallResult("init", NoPoint, Nothing, "ok", "", Nothing)
    /\ outstanding = <<>>
    /\ hist = NoHist

\* base.Optimizer.ask on a CMA
CMAAsk ==
    /\ optimizer = "CMA"
    /\ Running
    /\ num_ask < MaxAsksCMA
    /\ \E out \in CMA_internal_ask(cma, dimension) :
        /\ cma' = out.cma
        /\ result' = CallResult("ask", out.x, Nothing, "ok", "", Nothing)
        /\ outstanding' = Append(outstanding, Asked(out.x, Nothing))
    /\ num_ask' = num_ask + 1
    /\ UNCHANGED <<optimizer, dimension, budget, num_workers, num_tell, archive,
                   oneplusone, pso, portfolio, eda, spsa, hist>>

\* base.Optimizer.tell on a CMA: the archive records the value, then
\* _internal_tell
CMATell ==
    /\ optimizer = "CMA"
    /\ Running
    /\ \E x \in TellPoints : \E value \in TellValues(x, ValuesCMA) :
        /\ \E out \in CMA_internal_tell(cma, x, value) :
            /\ cma' = out.cma
            /\ result' = CallResult("tell", x, Some(value), "ok", out.note, Nothing)
        /\ outstanding' = Answer(outstanding, x)
        /\ archive' = ArchiveTell(archive, x, value)
        /\ hist' = [hist EXCEPT !.misuse = @ \/ Misuse(x)]
    /\ num_tell' = num_tell + 1
    /\ UNCHANGED <<optimizer, dimension, budget, num_workers, num_ask,
                   oneplusone, pso, portfolio, eda, spsa>>

\* a recommendation that constructs the solver when there is none yet
CMARecommend_building ==
    /\ optimizer = "CMA"
    /\ Running
    /\ cma' = Built(cma)
    /\ result' = CallResult("recommend", cma'.es.xbest, Nothing, "ok", "", Nothing)
    /\ UNCHANGED <<optimizer, dimension, budget, num_workers, num_ask, num_tell, archive,
                   oneplusone, pso, portfolio, eda, spsa, outstanding, hist>>

\* CMA._internal_provide_recommendation: without a solver the RuntimeError
\* is returned, not raised
CMARecommend ==
    /\ optimizer = "CMA"
    /\ Running
    /\ result' = IF cma.es.built
                 THEN CallResult("recommend", cma.es.xbest, Nothing, "ok", "", Nothing)
                 ELSE CallResult("recommend", NoPoint, Nothing, "ok", "RuntimeError", Nothing)
    /\ UNCHANGED <<optimizer, dimension, budget, num_workers, num_ask, num_tell, archive,
                   oneplusone, pso, portfolio, eda, cma, spsa, outstanding, hist>>

NextCMA == CMAAsk \/ CMATell \/ CMARecommend

SpecCMA == InitCMA /\ [][NextCMA]_vars

\* Runs of more asks than one batch holds, the points being told in the order
\* in which they were asked.
BatchAsk ==
    /\ optimizer = "CMA"
    /\ num_ask < MaxAsksBatches
    /\ \E out \in CMA_internal_ask(cma, dimension) :
        /\ cma' = out.cma
        /\ result' = CallResult("ask", out.x, Nothing, "ok", "", Nothing)
        /\ outstanding' = Append(outstanding, Asked(out.x, Nothing))
    /\ num_ask' = num_ask + 1
    /\ UNCHANGED <<optimizer, dimension, budget, num_workers, num_tell, archive,
                   oneplusone, pso, portfolio, eda, spsa, hist>>

BatchTell == outstanding # <<>> /\ CMATell /\ result'.x = Head(outstanding).x

NextBatches == BatchAsk \/ BatchTell

SpecBatches == InitCMA /\ [][NextBatches]_vars

----------------------------------------------------------------------------
(* SPSA.                                                                   *)
(* Coordinates of t, avg and of the returned points are in millionths.     *)
(* ym and yp are optional numbers; delta is NoPoint while it is nan.       *)

\* objective values reported to an SPSA
ValuesSPSA == {3, 5}

\* SPSA.__init__
SPSAInit(d, b) ==
    [init |-> TRUE, idx |-> 0, delta |-> NoPoint, ym |-> Nothing, yp |-> Nothing,
     t |-> Zeros(d), avg |-> Zeros(d),
     A |-> IF b = Nothing THEN 10 ELSE Max(10, b[1] \div 20)]

\* SPSA.ck, self.c / (k//2 + 1)**0.101 with self.c = 1e-1, in millionths
ck(k) ==
    LET j == (k \div 2) + 1 IN
    IF j = 1 THEN 100000 ELSE IF j = 2 THEN 93239 ELSE IF j = 3 THEN 89497 ELSE 86934

\* self.ak(k) / 2 / self.ck(k) with self.a = 1e-5 and A = 10, in billionths
Gain(k) ==
    LET j == (k \div 2) + 1 IN
    IF j = 1 THEN 11804 ELSE IF j = 2 THEN 12014 ELSE IF j = 3 THEN 11927 ELSE 11786

\* draws of 2 * self._rng.randint(2, size=self.dimension) - 1
Deltas(d) == [1..d -> {0 - 1, 1}]

\* SPSA._internal_ask drawing a new delta at odd k as well
SPSA_internal_ask_redraws(sp, d) ==
    LET k == sp.idx
        moved ==
            IF sp.init \/ k % 2 = 1 THEN sp
            ELSE LET t == [i \in 1..d |->
                             sp.t[i] - ((Gain(k) * (sp.yp[1] - sp.ym[1]) * sp.delta[i])
                                        \div 1000)]
                 IN  [sp EXCEPT !.t = t,
                                !.avg = [i \in 1..d |->
                                           @[i] + ((t[i] - @[i]) \div ((k \div 2) + 1))]]
    IN  {[spsa |-> [moved EXCEPT !.delta = delta],
          x |-> [i \in 1..d |-> IF k % 2 = 0 THEN moved.t[i] - ck(k) * delta[i]
                                 ELSE moved.t[i] + ck(k) * delta[i]]] : delta \in Deltas(d)}

\* SPSA._internal_ask: the outcomes [spsa, x]
SPSA_internal_ask(sp, d) ==
    LET k == sp.idx IN
    IF k % 2 = 0
    THEN LET moved ==
               IF sp.init THEN sp
               ELSE LET t == [i \in 1..d |->
                                sp.t[i] - ((Gain(k) * (sp.yp[1] - sp.ym[1]) * sp.delta[i])
                                           \div 1000)]
                    IN  [sp EXCEPT !.t = t,
                                   !.avg = [i \in 1..d |->
                                              @[i] + ((t[i] - @[i]) \div ((k \div 2) + 1))]]
         IN  {[spsa |-> [moved EXCEPT !.delta = delta],
               x |-> [i \in 1..d |-> moved.t[i] - ck(k) * delta[i]]] : delta \in Deltas(d)}
    ELSE {[spsa |-> sp, x |-> [i \in 1..d |-> sp.t[i] + ck(k) * sp.delta[i]]]}

\* SPSA._internal_tell with the two slots exchanged
SPSA_internal_tell_swapped(sp, x, value) ==
    LET written == IF sp.idx % 2 = 0
                   THEN [sp EXCEPT !.yp = Some(value)]
                   ELSE [sp EXCEPT !.ym = Some(value)]
    IN  [written EXCEPT
            !.idx = @ + 1,
            !.init = IF @ /\ written.yp # Nothing /\ written.ym # Nothing THEN FALSE ELSE @]

\* SPSA._internal_tell: the call never raises
SPSA_internal_tell(sp, x, value) ==
    LET written == IF sp.idx % 2 = 0
                   THEN [sp EXCEPT !.ym = Some(value)]
                   ELSE [sp EXCEPT !.yp = Some(value)]
    IN  [written EXCEPT
            !.idx = @ + 1,
            !.init = IF @ /\ written.yp # Nothing /\ written.ym # Nothing THEN FALSE ELSE @]

InitSPSA ==
    /\ optimizer = "SPSA"
    /\ dimension = 1
    /\ budget = Nothing
    /\ num_workers = 1
    /\ num_ask = 0
    /\ num_tell = 0
    /\ archive = <<>>
    /\ oneplusone = Unused
    /\ pso = Unused
    /\ portfolio = Unused
    /\ eda = Unused
    /\ cma = Unused
    /\ spsa = SPSAInit(dimension, budget)
    /\ result = CallResult("init", NoPoint, Nothing, "ok", "", Nothing)
    /\ outstanding = <<>>
    /\ hist = NoHist

\* base.Optimizer.ask on an SPSA
SPSAAsk ==
    /\ optimizer = "SPSA"
    /\ Running
    /\ num_ask < MaxAsksSPSA
    /\ \E out \in SPSA_internal_ask(spsa, dimension) :
        /\ spsa' = out.spsa
        /\ result' = CallResult("ask", out.x, Nothing, "ok", "", Nothing)
        /\ outstanding' = Append(outstanding, Asked(out.x, Nothing))
    /\ num_ask' = num_ask + 1
    /\ UNCHANGED <<optimizer, dimension, budget, num_workers, num_tell, archive,
                   oneplusone, pso, portfolio, eda, cma, hist>>

\* base.Optimizer.tell on an SPSA: the archive records the value, then
\* _internal_tell
SPSATell ==
    /\ optimizer = "SPSA"
    /\ Running
    /\ \E x \in TellPoints : \E value \in TellValues(x, ValuesSPSA) :
        /\ spsa' = SPSA_internal_tell(spsa, x, value)
        /\ result' = CallResult("tell", x, Some(value), "ok", "", Nothing)
        /\ outstanding' = Answer(outstanding, x)
        /\ archive' = ArchiveTell(archive, x, value)
        /\ hist' = [hist EXCEPT !.misuse = @ \/ Misuse(x)]
    /\ num_tell' = num_tell + 1
    /\ UNCHANGED <<optimizer, dimension, budget, num_workers, num_ask,
                   oneplusone, pso, portfolio, eda, cma>>

\* SPSA._internal_provide_recommendation
SPSARecommend ==
    /\ optimizer = "SPSA"
    /\ Running
    /\ result' = CallResult("recommend", spsa.avg, Nothing, "ok", "", Nothing)
    /\ UNCHANGED <<optimizer, dimension, budget, num_workers, num_ask, num_tell, archive,
                   oneplusone, pso, portfolio, eda, cma, spsa, outstanding, hist>>

NextSPSA == SPSAAsk \/ SPSATell \/ SPSARecommend

SpecSPSA == InitSPSA /\ [][NextSPSA]_vars

\* Strictly alternating use: an ask once every point asked was told, then the
\* tell of that point.
AlternatingAsk == num_ask = num_tell /\ SPSAAsk

AlternatingTell == result.op = "ask" /\ SPSATell /\ result'.x = result.x

NextAlternating == AlternatingAsk \/ AlternatingTell

SpecAlternating == InitSPSA /\ [][NextAlternating]_vars

----------------------------------------------------------------------------
(* Any optimizer of the library. *)

Init ==
    \/ InitOnePlusOne
    \/ InitCMA
    \/ InitEDA
    \/ InitPSO
    \/ InitSPSA
    \/ InitPortfolio

Next ==
    \/ OnePlusOneAsk \/ OnePlusOneTell \/ OnePlusOneRecommend
    \/ CMAAsk \/ CMATell \/ CMARecommend
    \/ EDAAsk \/ EDATell \/ EDARecommend
    \/ PSOAsk \/ PSOTell \/ PSORecommend
    \/ SPSAAsk \/ SPSATell \/ SPSARecommend
    \/ PortfolioAsk \/ PortfolioTell \/ PortfolioRecommend

Spec == Init /\ [][Next]_vars

\* the optimizers that keep a ledger of pending asks: PSO (self.locations),
\* the portfolios (self.who_asked), EDA and TBPSA (self.unevaluated_population)
InitLedgers == InitPSO \/ InitPortfolio \/ InitEDA

NextLedgers ==
    \/ PSOAsk \/ PSOTell \/ PSORecommend
    \/ PortfolioAsk \/ PortfolioTell \/ PortfolioRecommend
    \/ EDAAsk \/ EDATell \/ EDARecommend

SpecLedgers == InitLedgers /\ [][NextLedgers]_vars

----------------------------------------------------------------------------
(* Properties of the one-plus-one optimizer. *)

GaussianOrCauchy ==
    /\ optimizer = "OnePlusOne"
    /\ oneplusone.parameters.mutation \in {"gaussian", "cauchy"}

\* the step is a tell on a one-plus-one with Gaussian or Cauchy mutation
OnePlusOneTellStep == GaussianOrCauchy /\ num_tell' = num_tell + 1

\* sigma times 2 or times .84 (= 21/25), written out
Doubled(sigma) == <<2 * sigma[1], sigma[2]>>
Shrunk(sigma) == <<21 * sigma[1], 25 * sigma[2]>>

\* C9 as stated: every tell compares the told value with the mean of the
\* pessimistic best as it was before the tell, and doubles the step size when
\* the value is at most that mean, multiplies it by .84 otherwise.
C9_ComparedWithBestBeforeTell ==
    [][OnePlusOneTellStep =>
        oneplusone'.sigma =
            IF AtMostBestMean(result'.value[1], archive, "pessimistic")
            THEN Doubled(oneplusone.sigma) ELSE Shrunk(oneplusone.sigma)]_vars

\* C9 amended: every tell compares the told value with the mean of the
\* pessimistic best of the archive that already holds this tell, doubles the
\* step size when the value is at most that mean and multiplies it by .84
\* otherwise; after n tells the step size is 1 times the product of the n factors.
C9_OneFifthRule ==
    /\ [][OnePlusOneTellStep =>
            oneplusone'.sigma =
                IF AtMostBestMean(result'.value[1], archive', "pessimistic")
                THEN Doubled(oneplusone.sigma) ELSE Shrunk(oneplusone.sigma)]_vars
    /\ [](GaussianOrCauchy =>
            /\ hist.success + hist.failure = num_tell
            /\ oneplusone.sigma = <<Pow(2, hist.success) * Pow(21, hist.failure),
                                    Pow(25, hist.failure)>>)

\* C9 witness: tells have both doubled and shrunk the step size, one of them on
\* a point that was already in the archive
C9_Witness ==
    /\ GaussianOrCauchy
    /\ hist.success >= 1
    /\ hist.failure >= 1
    /\ \E i \in 1..Len(archive) : archive[i].count >= 2

\* the scenario of C10: Gaussian one-plus-one, dimension 2, no budget, no
\* noise handling; ask, tell 5, ask, tell 3
C10_Scenario ==
    /\ optimizer = "OnePlusOne"
    /\ oneplusone.parameters = DefaultOnePlusOne
    /\ dimension = 2
    /\ budget = Nothing
    /\ hist.script = "told3"

\* C10 as stated: after the scenario the step size has been doubled exactly once
C10_DoubledOnce == C10_Scenario => oneplusone.sigma = <<2, 1>>

\* C10 amended: after ask, tell 5, ask, tell 3 the step size has been doubled
\* twice (it equals 4: the first tell doubles it too), and recommend returns
\* the second asked point.
C10_DoubledTwice ==
    C10_Scenario =>
        /\ oneplusone.sigma = <<4, 1>>
        /\ BestX(archive, "pessimistic", dimension) = hist.second
        /\ result.op = "recommend" => result.x = hist.second

\* C10 witness: recommend has been called after the scenario, and the second
\* asked point is not the first one
C10_Witness ==
    /\ C10_Scenario
    /\ result.op = "recommend"
    /\ hist.second # Zeros(dimension)

----------------------------------------------------------------------------
(* Properties of PSO. *)

\* a successful tell, a call of ask
PSOTellStep == optimizer = "PSO" /\ num_tell' = num_tell + 1
PSOAskStep == optimizer = "PSO" /\ pso'.index = pso.index + 1

\* the fields of particle slot j that a tell may write
Particle(ps, j) == <<ps.pop_fitness[j + 1], ps.pop_best[j + 1], ps.pop_best_fitness[j + 1]>>

\* C1: a successful PSO tell of x takes the slot at the head of x's pending
\* list, which is the slot of the oldest outstanding ask of x; the value is
\* recorded for that particle, the head entry is removed, the later entries
\* of x and the entries of the other points stay, in order, and no other
\* particle is written.
C1_TellConsumesHead ==
    [][PSOTellStep =>
        LET x == result'.x
            slots == Located(pso.locations, x)
        IN  /\ slots # <<>>
            /\ Oldest(outstanding, x) # 0
            /\ slots[1] = outstanding[Oldest(outstanding, x)].slot[1]
            /\ result'.slot = Some(slots[1])
            /\ pso'.pop_fitness[slots[1] + 1] = result'.value
            /\ pso'.locations[x] = Tail(slots)
            /\ \A k \in (DOMAIN pso.locations) \ {x} : pso'.locations[k] = pso.locations[k]
            /\ \A j \in 0..(pso.llambda - 1) :
                    j # slots[1] => Particle(pso', j) = Particle(pso, j)]_vars

\* a tell of a point that two particles had pending: one entry is left
C1_Witness ==
    /\ optimizer = "PSO"
    /\ result.op = "tell"
    /\ result.status = "ok"
    /\ Located(pso.locations, result.x) # <<>>

\* C5 as stated: every point PSO returns, every stored position and every
\* personal or global best has exactly dimension coordinates.
C5_KeepsDimension ==
    optimizer = "PSO" =>
        /\ (result.op = "ask" /\ result.status = "ok" => Len(result.x) = dimension)
        /\ \A l \in 1..Len(pso.pop) :
                Len(pso.pop[l].v) = dimension /\ Len(pso.pop_best[l]) = dimension
        /\ (pso.pso_best # NoPoint => Len(pso.pso_best) = dimension)

NeverEmitted == SelectSeq([i \in 1..pso.llambda |-> i - 1], LAMBDA j : hist.emitted[j + 1] = 0)

\* C8: a successful tell appends the told slot to the back of the queue, a
\* successful ask takes the slot at the front; so the queue holds the slots
\* not yet emitted and then the told slots in the order of their tells, and
\* particles are asked again in the order in which they were told.
C8_FirstToldFirstAsked ==
    /\ [][PSOTellStep => pso'.queue = Append(pso.queue, result'.slot[1])]_vars
    /\ [][PSOAskStep /\ result'.status = "ok" =>
            result'.slot = Some(Head(pso.queue)) /\ pso'.queue = Tail(pso.queue)]_vars
    /\ [](optimizer = "PSO" => pso.queue = NeverEmitted \o hist.waiting)

\* the whole swarm was asked, both particles were told, the higher slot
\* first, and the next ask has emitted the higher slot again
C8_Witness ==
    /\ optimizer = "PSO"
    /\ pso.llambda = 2
    /\ result.op = "ask"
    /\ result.status = "ok"
    /\ result.slot = Some(1)
    /\ hist.emitted = <<1, 2>>
    /\ pso.queue = <<0>>

----------------------------------------------------------------------------
(* Properties of the portfolios. *)

\* a successful tell
PortfolioTellStep == optimizer = "Portfolio" /\ num_tell' = num_tell + 1

\* C2: a successful portfolio tell of (x, v) removes the oldest producer
\* recorded for x, which is the sub-optimizer that produced the oldest
\* outstanding ask of x and still has x pending; (x, v) is forwarded to that
\* sub-optimizer and no other sub-optimizer or entry of the table changes.
C2_TellReachesProducer ==
    [][PortfolioTellStep =>
        LET x == result'.x
            producers == Located(portfolio.who_asked, x)
        IN  /\ producers # <<>>
            /\ Oldest(outstanding, x) # 0
            /\ LET k == At(portfolio.optims, producers[1]) IN
                /\ k = outstanding[Oldest(outstanding, x)].slot[1]
                /\ result'.slot = Some(producers[1])
                /\ IndexOf(portfolio.optims[k].pending, x) # 0
                /\ portfolio'.optims[k].told =
                        Append(portfolio.optims[k].told, <<x, result'.value[1]>>)
                /\ \A j \in 1..Len(portfolio.optims) :
                        j # k => portfolio'.optims[j] = portfolio.optims[j]
            /\ portfolio'.who_asked[x] = Tail(producers)
            /\ \A y \in (DOMAIN portfolio.who_asked) \ {x} :
                    portfolio'.who_asked[y] = portfolio.who_asked[y]]_vars

\* a point produced by two sub-optimizers was told once: the value went to
\* the first producer and the other producer is still recorded
C2_Witness ==
    /\ optimizer = "Portfolio"
    /\ result.op = "tell"
    /\ result.status = "ok"
    /\ Located(portfolio.who_asked, result.x) # <<>>
    /\ At(portfolio.optims, portfolio.who_asked[result.x][1])
            # At(portfolio.optims, result.slot[1])

----------------------------------------------------------------------------
(* Properties of every optimizer. *)

\* the optimizers that keep a ledger of pending asks
Ledgers == {"PSO", "Portfolio", "EDA"}

\* number of ledger entries pending for point x: the length of x's list in
\* the location map or the dispatch table, the occurrences of x in the
\* unevaluated cohort
PendingIn(ps, po, e, x) ==
    IF optimizer = "PSO" THEN Len(Located(ps.locations, x))
    ELSE IF optimizer = "Portfolio" THEN Len(Located(po.who_asked, x))
    ELSE Cardinality({i \in 1..Len(e.unevaluated_population) :
                        e.unevaluated_population[i].x = x})

PendingOf(x) == PendingIn(pso, portfolio, eda, x)

\* the points the ledger has an entry (possibly an empty list) for
LedgerPoints ==
    IF optimizer = "PSO" THEN DOMAIN pso.locations
    ELSE IF optimizer = "Portfolio" THEN DOMAIN portfolio.who_asked
    ELSE {eda.unevaluated_population[i].x : i \in 1..Len(eda.unevaluated_population)}

RECURSIVE PendingOver(_)
PendingOver(points) ==
    IF points = {} THEN 0
    ELSE LET x == CHOOSE y \in points : TRUE
         IN  PendingOf(x) + PendingOver(points \ {x})

\* C3: in PSO, the portfolios, EDA and TBPSA the number of pending entries is
\* the number of asks minus the number of successful tells and is never
\* negative; the entries pending for a point are its outstanding asks; a
\* successful tell consumes exactly one entry, of the told point.
C3_PendingIsAsksMinusTells ==
    /\ [](optimizer \in Ledgers =>
            /\ PendingOver(LedgerPoints) = num_ask - num_tell
            /\ num_tell <= num_ask
            /\ \A x \in LedgerPoints \cup TellPoints :
                    PendingOf(x) = Cardinality({i \in 1..Len(outstanding) :
                                                    outstanding[i].x = x}))
    /\ [][(num_tell' = num_tell + 1) /\ optimizer \in Ledgers =>
            LET x == result'.x IN
            /\ PendingOf(x) >= 1
            /\ PendingIn(pso', portfolio', eda', x) = PendingOf(x) - 1
            /\ \A y \in LedgerPoints \ {x} :
                    PendingIn(pso', portfolio', eda', y) = PendingOf(y)
         ]_vars

\* an EDA or TBPSA with one of two asks of the same point told, the other
\* still in the unevaluated cohort
C3_Witness ==
    /\ optimizer = "EDA"
    /\ result.op = "tell"
    /\ result.status = "ok"
    /\ num_ask - num_tell >= 2
    /\ PendingOf(result.x) >= 1

\* C4 as stated: a tell of a point that no outstanding ask returned (never
\* asked, or every ask of it already told) fails, whatever the optimizer.
C4_UnaskedTellFails ==
    result.op = "tell" /\ hist.misuse => result.status = "error"

\* C6 as stated: the first ask of every optimizer returns the all-zero point.
C6_FirstAskIsOrigin ==
    num_ask = 1 /\ result.op = "ask" /\ result.status = "ok" => result.x = Zeros(dimension)

\* C6, amended: the first ask of a one-plus-one optimizer returns the
\* all-zero point whatever the configuration and the draws; the first ask
\* of SPSA is c_0 away from the origin in every coordinate, never the origin.
C6_OnePlusOneStartsAtOrigin ==
    num_ask = 1 /\ result.op = "ask" /\ result.status = "ok" =>
        /\ (optimizer = "OnePlusOne" => result.x = Zeros(dimension))
        /\ (optimizer = "SPSA" =>
                \A i \in 1..dimension : result.x[i] \in {0 - ck(0), ck(0)})

\* the first ask of a noisy one-plus-one with two coordinate draws possible
C6_Witness ==
    /\ optimizer = "OnePlusOne"
    /\ oneplusone.parameters.noise_handling.strategy = "random"
    /\ num_ask = 1
    /\ result.op = "ask"
    /\ result.x = Zeros(dimension)

----------------------------------------------------------------------------
(* Properties of CMA. *)

\* C11 as stated: when the solver rejects a submitted batch, the buffers
\* listx and listy are empty when that tell returns.
C11_BufferEmptyAfterRejection ==
    optimizer = "CMA" /\ result.op = "tell" /\ result.note = "rejected" =>
        cma.listx = <<>> /\ cma.listy = <<>>

----------------------------------------------------------------------------
(* Properties of EDA and TBPSA. *)

\* a successful tell of an EDA (the class EDA itself)
EDATellStep == (num_tell' = num_tell + 1) /\ optimizer = "EDA" /\ eda.variant = "EDA"

\* the individuals of lowest fitness among the evaluated cohort and the pair told
BestOfCohort(cohort, x, value, sigmas) ==
    LET lowest == CHOOSE f \in {cohort[k].fitness : k \in 1..Len(cohort)} \cup {value} :
                    \A g \in {cohort[k].fitness : k \in 1..Len(cohort)} \cup {value} : f <= g
    IN  {[x |-> cohort[k].x, sigma |-> cohort[k].sigma] :
            k \in {j \in 1..Len(cohort) : cohort[j].fitness = lowest}}
        \cup (IF value = lowest THEN {[x |-> x, sigma |-> s] : s \in sigmas} ELSE {})

\* C12: in EDA with num_workers = 1 the first 4d - 1 successful tells leave
\* center, covariance and step size as constructed and only lengthen the
\* evaluated cohort; the 4d-th one re-estimates the three from the cohort
\* (the center and the step size are those of a best individual, mu being d = 1)
\* and empties the evaluated cohort, and the unevaluated one too when exactly
\* 4d points were asked.
C12_ReestimatesOnLastOfCohort ==
    [][EDATellStep /\ num_tell' <= 4 * dimension =>
        IF num_tell' < 4 * dimension
        THEN /\ eda'.current_center = eda.current_center
             /\ eda'.covariance = Identity(dimension)
             /\ eda'.sigma = eda.sigma
             /\ Len(eda'.evaluated_population) = num_tell'
        ELSE /\ eda'.evaluated_population = <<>>
             /\ (num_ask = 4 * dimension => eda'.unevaluated_population = <<>>)
             /\ eda'.covariance # Identity(dimension)
             /\ \E best \in BestOfCohort(eda.evaluated_population, result'.x, result'.value[1],
                                         {eda.unevaluated_population[k].sigma :
                                            k \in {j \in 1..Len(eda.unevaluated_population) :
                                                    eda.unevaluated_population[j].x = result'.x}}) :
                    /\ eda'.current_center = best.x
                    /\ eda'.sigma = best.sigma]_vars

\* four points were asked and told, and the fourth tell re-estimated
C12_Witness ==
    /\ optimizer = "EDA"
    /\ eda.variant = "EDA"
    /\ num_ask = 4 * dimension
    /\ num_tell = 4 * dimension
    /\ result.op = "tell"
    /\ result.status = "ok"
    /\ eda.evaluated_population = <<>>
    /\ eda.unevaluated_population = <<>>
    /\ eda.covariance # Identity(dimension)

----------------------------------------------------------------------------
(* Properties of the active-selection portfolios. *)

\* the archive of a sub-optimizer, from the pairs it was told
RECURSIVE ChildArchive(_)
ChildArchive(told) ==
    IF told = <<>> THEN <<>>
    ELSE ArchiveTell(ChildArchive(SubSeq(told, 1, Len(told) - 1)),
                     told[Len(told)][1], told[Len(told)][2])

\* current_bests["pessimistic"] of a sub-optimizer that was told something
ChildBest(child) ==
    LET arch == ChildArchive(child.told) IN arch[BestIndex(arch, "pessimistic")]

\* C13 as stated: the first ask after the exploration phase of an ASCMADEthird
\* goes to a sub-optimizer whose pessimistic best estimate no other
\* sub-optimizer beats (every sub-optimizer having been told a value).
C13_CommitsToBestChild ==
    /\ optimizer = "Portfolio"
    /\ portfolio.kind = "ASCMADEthird"
    /\ result.op = "ask"
    /\ num_ask = (budget[1] \div 3) + 1
    /\ \A k \in 1..Len(portfolio.optims) : portfolio.optims[k].told # <<>>
    => \A j \in 1..Len(portfolio.optims) :
            ~LowerEstimate(ChildBest(portfolio.optims[j]),
                           ChildBest(portfolio.optims[At(portfolio.optims, result.slot[1])]),
                           "pessimistic")

----------------------------------------------------------------------------
(* Properties of SPSA. *)

\* an ask of an SPSA that follows another ask, no other call in between
SPSASecondAskStep ==
    (result'.op = "ask") /\ optimizer = "SPSA" /\ result.op = "ask" /\ num_ask' # num_ask

\* C14 as stated: an SPSA ask that follows an ask with no tell in between
\* fails, returns no point and leaves t, avg and delta as they were.
C14_SecondAskFails ==
    [][SPSASecondAskStep =>
        /\ result'.status = "error"
        /\ result'.x = NoPoint
        /\ spsa' = spsa]_vars

----------------------------------------------------------------------------
(* Properties of the round-robin dispatch. *)

\* an ask of a portfolio that schedules by round-robin: Portfolio itself, and
\* ASCMADEthird while its exploration budget lasts
RoundRobinAskStep ==
    (num_ask' = num_ask + 1) /\ optimizer = "Portfolio"
    /\ \/ portfolio.kind = "Portfolio"
       \/ portfolio.kind = "ASCMADEthird" /\ portfolio.budget_before_choosing > 0

\* C15: a round-robin ask made with ask counter k over n sub-optimizers is
\* delegated to sub-optimizer k mod n (it alone changes, the returned point
\* now pending in it) and k mod n is appended to the dispatch list of the
\* returned point; with 2 sub-optimizers, 4 round-robin asks are dispatched
\* to the indices 0, 1, 0, 1.
C15_RoundRobin ==
    /\ [][RoundRobinAskStep =>
            LET n == Len(portfolio.optims)
                index == num_ask % n
                x == result'.x
            IN  /\ result'.slot = Some(index)
                /\ portfolio'.optims[index + 1].pending
                        = Append(portfolio.optims[index + 1].pending, x)
                /\ \A j \in 1..n : j # index + 1 => portfolio'.optims[j] = portfolio.optims[j]
                /\ portfolio'.who_asked[x] = Append(Located(portfolio.who_asked, x), index)
                /\ \A y \in (DOMAIN portfolio.who_asked) \ {x} :
                        portfolio'.who_asked[y] = portfolio.who_asked[y]]_vars
    /\ [](optimizer = "Portfolio" /\ portfolio.kind = "ASCMADEthird" /\ budget = Some(12)
            /\ num_ask = 4 => hist.dispatched = <<1, 2, 1, 2>>)

\* four asks of an ASCMADEthird whose exploration budget is 4, the last one
\* returning a point that the same sub-optimizer had returned before
C15_Witness ==
    /\ optimizer = "Portfolio"
    /\ portfolio.kind = "ASCMADEthird"
    /\ Len(portfolio.optims) = 2
    /\ num_ask = 4
    /\ result.op = "ask"
    /\ result.slot = Some(1)
    /\ hist.dispatched = <<1, 2, 1, 2>>
    /\ Len(portfolio.who_asked[result.x]) >= 2

----------------------------------------------------------------------------
(* Properties of the recommendation. *)

\* C16: a recommendation leaves the archive, the counters and the state of
\* the algorithm (step size, cohorts, particles, queue, location map, solver
\* and buffers, iterate and average, sub-optimizers and dispatch table) as
\* they were, whatever the optimizer.
C16_RecommendChangesNothing ==
    [][(result'.op = "recommend") =>
        UNCHANGED <<optimizer, dimension, budget, num_workers, num_ask, num_tell, archive,
                    oneplusone, pso, portfolio, eda, cma, spsa, outstanding>>]_vars

\* a recommendation was made by a CMA holding told pairs in its buffers
C16_Witness ==
    /\ optimizer = "CMA"
    /\ result.op = "recommend"
    /\ result.status = "ok"
    /\ cma.listx # <<>>
    /\ num_ask >= 1

\* C17 as stated: a recommendation asked of a CMA before any ask or tell
\* fails instead of returning a value.
C17_EarlyRecommendFails ==
    optimizer = "CMA" /\ result.op = "recommend" /\ num_ask = 0 /\ num_tell = 0 =>
        result.status = "error"

----------------------------------------------------------------------------
(* Properties of the one-plus-one configuration. *)

\* C18: the construction of a one-plus-one configuration (noise handling
\* None, a name or a pair of a name and a factor) fails when, and only when,
\* the mutation is none of gaussian, cauchy, discrete, fastga, doublefastga,
\* portfolio, or a noise handling is given whose strategy is neither random
\* nor optimistic or whose factor is not greater than 0; and no ask or tell
\* of a constructed one-plus-one optimizer fails.
C18_RejectedAtConstruction ==
    optimizer = "OnePlusOne" =>
        LET p == oneplusone.parameters
            nh == p.noise_handling
        IN  /\ result.op = "init" =>
                (result.status = "error" <=>
                    \/ p.mutation \notin {"gaussian", "cauchy", "discrete", "fastga",
                                          "doublefastga", "portfolio"}
                    \/ nh.strategy # None /\ nh.strategy \notin {"random", "optimistic"}
                    \/ nh.strategy # None /\ nh.factor[1] <= 0)
            /\ result.op \in {"ask", "tell"} => result.status = "ok"

\* a construction with the mutation "crossover", which _internal_ask has a
\* branch for, was rejected
C18_Witness ==
    /\ optimizer = "OnePlusOne"
    /\ result.op = "init"
    /\ result.status = "error"
    /\ oneplusone.parameters.mutation = "crossover"

\* C19 as stated: with a mutation other than gaussian and cauchy the step
\* size of a one-plus-one optimizer stays at its initial value 1.
C19_DiscreteKeepsStepSize ==
    optimizer = "OnePlusOne" /\ oneplusone.parameters.mutation \in DiscreteNames =>
        oneplusone.sigma = <<1, 1>>

----------------------------------------------------------------------------
(* Properties of the cohorts of the EDA family.                            *)

\* C20: in EDA, PCEDA, MPCEDA, MEDA and TBPSA, after every tell that returns,
\* the evaluated cohort holds fewer than llambda individuals, llambda being the
\* cohort size after that tell, also when the tell changed llambda.
C20_CohortBelowLambda ==
    optimizer = "EDA" /\ result.op = "tell" /\ result.status = "ok" =>
        Len(eda.evaluated_population) < eda.llambda

\* a tell has returned whose population-size test brought llambda from twice
\* its initial value back to it
C20_Witness ==
    /\ optimizer = "EDA" /\ result.op = "tell" /\ result.status = "ok"
    /\ eda.variant \in {"PCEDA", "MPCEDA", "TBPSA"}
    /\ eda.archive_fitness = <<>>
    /\ num_tell = 5 * Max(4 * dimension, num_workers)
                    + 5 * 2 * Max(4 * dimension, num_workers)
    /\ eda.llambda = Max(4 * dimension, num_workers)
    /\ Len(eda.evaluated_population) < eda.llambda

----------------------------------------------------------------------------
(* Properties of the population-size test.                                 *)

\* the classes whose _internal_tell starts with the population-size test
Tested == {"PCEDA", "MPCEDA", "TBPSA"}

\* a tell of a long run, returning or raising
CohortTellStep == result.op = "ask" /\ result'.op = "tell"

\* C21: in TBPSA, PCEDA and MPCEDA the population-size test runs exactly on
\* the tell that brings the fitness archive to 5 * llambda values: mu is
\* doubled when z < 2 and becomes max(d, floor(0.84 mu)) otherwise, llambda
\* becomes 4 mu, or max(4 mu, num_workers) with mu = floor(llambda / 4) when
\* num_workers > 1, and the archive is emptied; no other step changes mu or
\* llambda.
C21_TestOnFifthCohort ==
    [][(optimizer = "EDA" /\ eda.variant \in Tested) =>
        IF CohortTellStep /\ Len(eda.archive_fitness) + 1 = 5 * eda.llambda
        THEN LET fitness == Append(eda.archive_fitness, result'.value[1])
                 l == eda.llambda
                 m == IF ZBelowTwo(SubSeq(fitness, 1, l), SubSeq(fitness, 4 * l + 1, 5 * l), l)
                      THEN 2 * eda.mu
                      ELSE Max(dimension, (84 * eda.mu) \div 100)
             IN  /\ eda'.archive_fitness = <<>>
                 /\ IF num_workers > 1
                    THEN /\ eda'.llambda = Max(4 * m, num_workers)
                         /\ eda'.mu = eda'.llambda \div 4
                    ELSE /\ eda'.llambda = 4 * m
                         /\ eda'.mu = m
        ELSE /\ eda'.mu = eda.mu
             /\ eda'.llambda = eda.llambda]_vars

\* a tell of a TBPSA with nine workers has run the test, which left llambda at
\* 9 and set mu to floor(9 / 4)
C21_Witness ==
    /\ optimizer = "EDA" /\ eda.variant \in Tested
    /\ result.op = "tell"
    /\ num_workers > 4 * dimension
    /\ num_tell = 5 * num_workers
    /\ eda.archive_fitness = <<>>
    /\ eda.llambda = num_workers
    /\ eda.mu = num_workers \div 4
    /\ eda.mu # dimension

\* mu, llambda and the fitness archive of a TBPSA, PCEDA or MPCEDA are in range
SizesInRange ==
    optimizer = "EDA" /\ eda.variant \in Tested =>
        /\ eda.mu >= dimension
        /\ 4 * eda.mu <= eda.llambda
        /\ eda.llambda >= num_workers
        /\ (result.op = "tell" => Len(eda.archive_fitness) < 5 * eda.llambda)

\* C22: in TBPSA, PCEDA and MPCEDA every reachable state has mu >= d,
\* 4 mu <= llambda and llambda >= num_workers, and after every tell the fitness
\* archive holds fewer than 5 llambda values; a tell that re-estimates does it
\* from a cohort of at least mu individuals.
C22_SizesInRange ==
    /\ []SizesInRange
    /\ [][(optimizer = "EDA" /\ eda.variant \in Tested /\ CohortTellStep
             /\ eda'.evaluated_population = <<>>) =>
            Len(eda.evaluated_population) + 1 >= eda'.mu]_vars

\* a tell has re-estimated from a complete cohort after the population-size
\* test had raised mu above the dimension
C22_Witness ==
    /\ optimizer = "EDA" /\ eda.variant \in Tested
    /\ result.op = "tell" /\ result.status = "ok"
    /\ eda.mu > dimension
    /\ eda.evaluated_population = <<>>
    /\ eda.archive_fitness # <<>>
    /\ num_tell > 5 * Max(4 * dimension, num_workers)

----------------------------------------------------------------------------
(* Properties of a tell the EDA family rejects.                            *)

\* C23 as stated: a tell of a point that is not in the unevaluated cohort
\* fails and leaves the state of the algorithm as it was (cohorts, center,
\* covariance, step size, and fitness archive, mu and llambda).
C23_RejectedTellChangesNothing ==
    [][(optimizer = "EDA" /\ ~hist.misuse
          /\ result'.op = "tell" /\ result'.status = "error") =>
            eda' = eda]_vars

----------------------------------------------------------------------------
(* Properties of the particles of PSO.                                     *)

\* the places of the ask queue that hold the slot, and the places of the
\* pending lists of the location map that hold it
QueuedAt(slot) == {i \in 1..Len(pso.queue) : pso.queue[i] = slot}
PendingAt(slot) ==
    {<<x, i>> \in UNION {{x} \X (1..Len(pso.locations[x])) : x \in DOMAIN pso.locations} :
        pso.locations[x][i] = slot}

\* C24: in PSO, once the first ask was made, every particle slot 0..llambda-1
\* occurs exactly once in the ask queue and the pending lists of the location
\* map taken together, so their lengths add up to llambda.
C24_EachSlotOnce ==
    optimizer = "PSO" /\ pso.index >= 0 =>
        \A slot \in 0..(pso.llambda - 1) :
            Cardinality(QueuedAt(slot)) + Cardinality(PendingAt(slot)) = 1

\* of two particles one is pending and the other queued, after one of them
\* was told and emitted a second time
C24_Witness ==
    /\ optimizer = "PSO" /\ pso.llambda = 2
    /\ \E slot \in 0..1 : hist.emitted[slot + 1] = 2
    /\ \E slot \in 0..1 : QueuedAt(slot) # {}
    /\ \E slot \in 0..1 : PendingAt(slot) # {}

\* C25: in PSO, whatever the order of asks and tells, the first emission of a
\* particle is its initial position, with no velocity update; every later
\* emission applies one velocity update and one clamp to that particle, which
\* was told before, while the global best is defined; no other step moves a
\* particle or changes a speed.
C25_OneUpdatePerLaterEmission ==
    [][optimizer = "PSO" =>
        IF PSOAskStep /\ result'.status = "ok"
        THEN LET l == result'.slot[1] + 1 IN
             /\ \A k \in (1..pso.llambda) \ {l} :
                    pso.index >= 0 => /\ pso'.pop[k] = pso.pop[k]
                                      /\ pso'.pop_speed[k] = pso.pop_speed[k]
             /\ IF hist.emitted[l] = 0
                THEN /\ pso'.pop[l].kind = "array"
                     /\ result'.x = to_real(pso'.pop[l].v)
                     /\ pso.index >= 0 => /\ pso'.pop[l] = pso.pop[l]
                                          /\ pso'.pop_speed[l] = pso.pop_speed[l]
                ELSE /\ \E i \in 1..Len(hist.waiting) : hist.waiting[i] = l - 1
                     /\ pso.pso_best # NoPoint
                     /\ \E rp \in [1..dimension -> FactorDraws], rg \in [1..dimension -> FactorDraws] :
                            /\ pso'.pop_speed[l] =
                                   [i \in 1..dimension |->
                                       Velocity(pso.pop_speed[l][i], pso.pop[l].v[i],
                                                pso.pop_best[l][i], pso.pso_best[i], rp[i], rg[i])]
                            /\ pso'.pop[l] = Clamp(PlusEquals(pso.pop[l], pso'.pop_speed[l]))
                     /\ result'.x = to_real(pso'.pop[l].v)
        ELSE /\ pso'.pop = pso.pop
             /\ pso'.pop_speed = pso.pop_speed]_vars

\* a particle has been emitted three times, the other one once
C25_Witness ==
    /\ optimizer = "PSO" /\ pso.llambda = 2
    /\ result.op = "ask" /\ result.status = "ok"
    /\ hist.emitted[result.slot[1] + 1] = 3
    /\ \E l \in 1..2 : hist.emitted[l] = 1

\* the lower of a best fitness (Nothing being float("inf")) and a value
Lower(fitness, value) ==
    IF fitness = Nothing \/ value < fitness[1] THEN Some(value) ELSE fitness

\* the global best fitness is the lowest personal best fitness, and both are
\* float("inf") exactly as long as nothing was told
GlobalIsLowestPersonal ==
    optimizer = "PSO" /\ pso.index >= 0 =>
        /\ (num_tell = 0) = (pso.pso_best_fitness = Nothing)
        /\ \A l \in 1..pso.llambda :
              \/ pso.pop_best_fitness[l] = Nothing
              \/ /\ pso.pso_best_fitness # Nothing
                 /\ pso.pso_best_fitness[1] <= pso.pop_best_fitness[l][1]
        /\ pso.pso_best_fitness # Nothing =>
              \E l \in 1..pso.llambda : pso.pop_best_fitness[l] = pso.pso_best_fitness

\* C26: in PSO with finite values, the global best fitness is the minimum of
\* the values told and of the personal best fitnesses, the personal best
\* fitness of a particle is the minimum of the values told for it, and none
\* of them increases: a tell lowers the global best and the personal best of
\* its particle to the value told when it is lower, and nothing else writes them.
C26_BestsAreMinima ==
    /\ []GlobalIsLowestPersonal
    /\ [][(optimizer = "PSO" /\ pso.index >= 0) =>
            IF PSOTellStep
            THEN LET l == result'.slot[1] + 1
                     value == result'.value[1]
                 IN  /\ pso'.pso_best_fitness = Lower(pso.pso_best_fitness, value)
                     /\ pso'.pop_best_fitness[l] = Lower(pso.pop_best_fitness[l], value)
                     /\ \A k \in (1..pso.llambda) \ {l} :
                            pso'.pop_best_fitness[k] = pso.pop_best_fitness[k]
            ELSE /\ pso'.pso_best_fitness = pso.pso_best_fitness
                 /\ pso'.pop_best_fitness = pso.pop_best_fitness]_vars

\* a tell gave a particle a personal best above the global best
C26_Witness ==
    /\ optimizer = "PSO"
    /\ result.op = "tell" /\ result.status = "ok"
    /\ pso.pso_best_fitness # Nothing
    /\ pso.pop_best_fitness[result.slot[1] + 1] = result.value
    /\ pso.pso_best_fitness[1] < result.value[1]

----------------------------------------------------------------------------
(* Properties of the cycle of SPSA.                                        *)

\* t - c * delta and t + c * delta
Minus(t, c, delta) == [i \in DOMAIN t |-> t[i] - c * delta[i]]
Plus(t, c, delta) == [i \in DOMAIN t |-> t[i] + c * delta[i]]

\* C27: in SPSA under strictly alternating ask and tell, the ask at even k
\* returns t - c_k delta and the next ask, at odd k, returns t + c_k delta with
\* the same delta and the same t; t and the running average are updated once
\* per completed pair, at the even ask that follows it (from the two values
\* of the pair and its delta), and not at the first ask; no other call writes
\* them.
C27_PairSharesDelta ==
    [][optimizer = "SPSA" =>
        IF num_ask' = num_ask + 1
        THEN LET k == num_ask IN
             IF k % 2 = 0
             THEN /\ IF k = 0
                     THEN spsa'.t = spsa.t /\ spsa'.avg = spsa.avg
                     ELSE /\ spsa'.t =
                                [i \in 1..dimension |->
                                    spsa.t[i] - ((Gain(k) * (spsa.yp[1] - spsa.ym[1])
                                                    * spsa.delta[i]) \div 1000)]
                          /\ spsa'.avg =
                                [i \in 1..dimension |->
                                    spsa.avg[i] + ((spsa'.t[i] - spsa.avg[i]) \div ((k \div 2) + 1))]
                  /\ result'.x = Minus(spsa'.t, ck(k), spsa'.delta)
             ELSE /\ spsa'.t = spsa.t /\ spsa'.avg = spsa.avg /\ spsa'.delta = spsa.delta
                  /\ result.x = Minus(spsa.t, ck(k - 1), spsa.delta)
                  /\ result'.x = Plus(spsa.t, ck(k - 1), spsa.delta)
                  /\ ck(k) = ck(k - 1)
        ELSE spsa'.t = spsa.t /\ spsa'.avg = spsa.avg /\ spsa'.delta = spsa.delta]_vars

\* the third ask has moved t away from the origin, after a pair told two
\* different values
C27_Witness ==
    /\ optimizer = "SPSA"
    /\ result.op = "ask"
    /\ num_ask = 3 /\ num_tell = 2
    /\ spsa.ym # spsa.yp
    /\ spsa.t # Zeros(dimension)
    /\ result.x = Minus(spsa.t, ck(2), spsa.delta)

\* the cycle index counts the tells, and the first-cycle flag is on before
\* the second tell and off from it on
IndexCountsTells ==
    optimizer = "SPSA" =>
        /\ spsa.idx = num_tell
        /\ spsa.init = (num_tell < 2)

\* C28: in SPSA the cycle index k is the number of tells made so far: an ask
\* leaves k alone, a tell adds 1 to it; a tell at even k writes the minus slot
\* only, a tell at odd k the plus slot only; the first-cycle flag turns off at
\* the second tell and stays off.
C28_IndexCountsTells ==
    /\ []IndexCountsTells
    /\ [][optimizer = "SPSA" =>
            IF num_tell' = num_tell + 1
            THEN /\ spsa'.idx = spsa.idx + 1
                 /\ IF spsa.idx % 2 = 0
                    THEN spsa'.ym = result'.value /\ spsa'.yp = spsa.yp
                    ELSE spsa'.yp = result'.value /\ spsa'.ym = spsa.ym
                 /\ (~spsa.init => ~spsa'.init)
            ELSE /\ spsa'.idx = spsa.idx
                 /\ spsa'.ym = spsa.ym /\ spsa'.yp = spsa.yp
                 /\ spsa'.init = spsa.init]_vars

\* the third tell has replaced the minus slot, the flag being off
C28_Witness ==
    /\ optimizer = "SPSA"
    /\ result.op = "tell"
    /\ num_tell = 3
    /\ ~spsa.init
    /\ spsa.ym = result.value
    /\ spsa.yp # spsa.ym

----------------------------------------------------------------------------
(* Properties of the buffers of CMA.                                       *)

\* the solver was asked for ceil(num_ask / popsize) batches, and the buffer
\* holds what is left of the last one
BatchesAsked ==
    optimizer = "CMA" =>
        LET p == cma._cma_init.popsize IN
        /\ cma.es.asked = (num_ask + p - 1) \div p
        /\ Len(cma.to_be_asked) = cma.es.asked * p - num_ask

\* C29: in CMA, ask requests a batch from the solver exactly when the local
\* buffer is empty and returns the points of a batch in batch order, each
\* once; after n asks with batches of p points the solver was asked for
\* ceil(n / p) batches, whatever the tells in between.
C29_BatchWhenBufferEmpty ==
    /\ []BatchesAsked
    /\ [][optimizer = "CMA" =>
            IF num_ask' = num_ask + 1
            THEN IF cma.to_be_asked = <<>>
                 THEN /\ cma'.es.asked = cma.es.asked + 1
                      /\ \E batch \in Batches(cma._cma_init.popsize, dimension) :
                            /\ result'.x = Head(batch)
                            /\ cma'.to_be_asked = Tail(batch)
                 ELSE /\ cma'.es.asked = cma.es.asked
                      /\ result'.x = Head(cma.to_be_asked)
                      /\ cma'.to_be_asked = Tail(cma.to_be_asked)
            ELSE /\ cma'.es.asked = cma.es.asked
                 /\ cma'.to_be_asked = cma.to_be_asked]_vars

\* the ask after a whole batch was returned has requested a second batch,
\* tells having been made
C29_Witness ==
    /\ optimizer = "CMA"
    /\ result.op = "ask"
    /\ num_ask = cma._cma_init.popsize + 1
    /\ num_tell > 0
    /\ cma.es.asked = 2
    /\ Len(cma.to_be_asked) = cma._cma_init.popsize - 1

\* C30 as stated: every batch submitted to the solver holds exactly popsize
\* pairs, and after every tell the tell buffer holds fewer than popsize pairs.
C30_BatchesOfPopsize ==
    optimizer = "CMA" =>
        /\ \A i \in 1..Len(cma.es.told) :
              /\ Len(cma.es.told[i].x) = cma._cma_init.popsize
              /\ Len(cma.es.told[i].y) = cma._cma_init.popsize
        /\ (result.op = "tell" => Len(cma.listx) < cma._cma_init.popsize)

----------------------------------------------------------------------------
(* Properties of the dispatch of the portfolios.                           *)

\* the exploration allowance an active-selection portfolio is built with
Allowance == budget[1] \div 3

\* the allowance is what the asks made so far have left of it, never negative
AllowanceLeft ==
    optimizer = "Portfolio" /\ portfolio.kind = "ASCMADEthird" =>
        /\ portfolio.budget_before_choosing >= 0
        /\ portfolio.budget_before_choosing = Max(Allowance - num_ask, 0)

\* C31: in an active-selection portfolio built with exploration allowance
\* E = floor(budget / 3), exactly the first E asks are dispatched round-robin
\* by the ask counter modulo the number of sub-optimizers, the allowance never
\* becomes negative, and all the asks after the first E are delegated to one
\* and the same sub-optimizer.
C31_ExploreThenCommit ==
    /\ []AllowanceLeft
    /\ [][(optimizer = "Portfolio" /\ portfolio.kind = "ASCMADEthird"
             /\ num_ask' = num_ask + 1) =>
            IF num_ask < Allowance
            THEN /\ result'.slot[1] = num_ask % Len(portfolio.optims)
                 /\ portfolio'.budget_before_choosing = portfolio.budget_before_choosing - 1
            ELSE /\ portfolio'.budget_before_choosing = 0
                 /\ \A j \in (Allowance + 1)..Len(hist.dispatched) :
                        hist.dispatched[j] = At(portfolio.optims, result'.slot[1])]_vars

\* two asks were made after the allowance of 2 was spent, both delegated to
\* the same sub-optimizer
C31_Witness ==
    /\ optimizer = "Portfolio" /\ portfolio.kind = "ASCMADEthird"
    /\ result.op = "ask"
    /\ Allowance = 2
    /\ num_ask = Allowance + 2
    /\ portfolio.budget_before_choosing = 0
    /\ hist.dispatched[Allowance + 1] = hist.dispatched[Allowance + 2]


-----------------------------------------------------------------------------
(* Properties of the tells forwarded to the sub-optimizers.                *)

\* every ask delegated to a sub-optimizer is either answered by a tell
\* forwarded to it or still pending there
ForwardedWithinDelegated ==
    optimizer = "Portfolio" =>
        \A k \in 1..Len(portfolio.optims) :
            LET c == portfolio.optims[k] IN
                /\ Len(c.told) <= Count(hist.dispatched, k)
                /\ Len(c.told) + Len(c.pending) = Count(hist.dispatched, k)

-----------------------------------------------------------------------------
(* Properties of the slot table of ParaPortfolio.                          *)

\* number of slots of the table given to sub-optimizer j (index of the code)
Slots(j) == Count(portfolio.which_optim, j)

\* the table has one slot per worker, every slot names one of the five
\* sub-optimizers, sub-optimizer 3 has one slot, and the other w - 1 slots are
\* shared evenly among 0, 1, 2 and 4, the earlier ones served first
SlotTable ==
    optimizer = "Portfolio" /\ portfolio.kind = "ParaPortfolio" =>
        /\ Len(portfolio.optims) = 5
        /\ Len(portfolio.which_optim) = num_workers
        /\ \A i \in 1..Len(portfolio.which_optim) :
                portfolio.which_optim[i] \in 0..(Len(portfolio.optims) - 1)
        /\ Slots(3) = 1
        /\ Slots(0) + Slots(1) + Slots(2) + Slots(4) = num_workers - 1
        /\ \A j \in {0, 1, 2} : Slots(j) = portfolio.optims[j + 1].num_workers
        /\ \A j \in {0, 1, 2, 4} : Slots(j) \in Nat
        /\ \A i, j \in {0, 1, 2, 4} :
                /\ Slots(i) - Slots(j) <= 1
                /\ i < j => Slots(i) >= Slots(j)

\* C33: in ParaPortfolio with w workers the slot table has w entries, each a
\* valid index into the five sub-optimizers; sub-optimizer 3 has one slot and
\* the slot counts of 0, 1, 2 and 4 are non-negative, sum to w - 1, differ
\* pairwise by at most 1 and are larger for the earlier sub-optimizers; the
\* ask made at ask counter k is delegated to the sub-optimizer of slot k mod w.
C33_SlotTable ==
    /\ []SlotTable
    /\ [][(optimizer = "Portfolio" /\ portfolio.kind = "ParaPortfolio"
             /\ num_ask' = num_ask + 1) =>
            /\ result'.slot = Some(portfolio.which_optim[(num_ask % num_workers) + 1])
            /\ hist'.dispatched = Append(hist.dispatched, result'.slot[1] + 1)
            /\ portfolio'.which_optim = portfolio.which_optim]_vars

\* three workers, table <<0, 1, 3>>: the fourth ask went back to slot 0
C33_Witness ==
    /\ optimizer = "Portfolio"
    /\ portfolio.kind = "ParaPortfolio"
    /\ num_workers = 3
    /\ portfolio.which_optim = <<0, 1, 3>>
    /\ result.op = "ask"
    /\ num_ask = 4
    /\ result.slot = Some(0)
    /\ hist.dispatched = <<1, 2, 4, 1>>


-----------------------------------------------------------------------------
(* Properties of the strategy selected by an ask of the one-plus-one.      *)

\* the points a mutation of x may give under the configured mutation
MutationsOf(o, x) ==
    CASE o.parameters.mutation = "gaussian" ->
            {Step(x, o.sigma, n) : n \in PointsOver(NormalDraws, Len(x))}
      [] o.parameters.mutation = "cauchy" ->
            {Step(x, o.sigma, n) : n \in PointsOver(CauchyDraws, Len(x))}
      [] OTHER -> DiscreteMutations(x)

\* C34: every ask of the one-plus-one after the first takes the first of
\* three strategies that applies: with noise handling configured and the ask
\* counter at most factor * (archive size)^3 it returns a point of the
\* archive (any of them for "random", the optimistic best for "optimistic");
\* otherwise, with crossover enabled, an odd ask counter and at least 3
\* archived points, a crossover of the pessimistic best; otherwise a mutation
\* of the pessimistic best.
C34_StrategyPriority ==
    [][(optimizer = "OnePlusOne" /\ num_ask >= 1 /\ result'.op = "ask"
            /\ num_ask' = num_ask + 1) =>
        LET p == oneplusone.parameters
            nh == p.noise_handling
            n == Len(archive)
            x == result'.x
            best == BestX(archive, "pessimistic", dimension)
        IN  IF nh.strategy # None /\ num_ask * nh.factor[2] <= nh.factor[1] * n * n * n
            THEN /\ ArchiveIndex(archive, x) # 0
                 /\ result'.note = nh.strategy
                 /\ nh.strategy \in {"random", "optimistic"}
                 /\ nh.strategy = "optimistic" =>
                        x = BestX(archive, "optimistic", dimension)
            ELSE IF p.crossover /\ num_ask % 2 = 1 /\ n >= 3
            THEN /\ result'.note = "crossover"
                 /\ x \in Crossovers(best, archive)
            ELSE /\ result'.note = p.mutation
                 /\ x \in MutationsOf(oneplusone, best)]_vars

\* the optimistic recombining variant with three archived points: the
\* fourth ask is above the noise limit (3 > 27 / 20) and odd, and returned a
\* crossover that is not the optimistic best
C34_Witness ==
    /\ optimizer = "OnePlusOne"
    /\ oneplusone.parameters.crossover
    /\ oneplusone.parameters.noise_handling.strategy = "optimistic"
    /\ result.op = "ask"
    /\ result.note = "crossover"
    /\ num_ask = 4
    /\ Len(archive) = 3
    /\ num_tell = 3
    /\ result.x # BestX(archive, "optimistic", dimension)

====
